---- MODULE Spec2Model ----
(***************************************************************************)
(* hippo: persistent per-agent memory engine.                              *)
(*                                                                         *)
(* State machine of the chunk store (one SQLite database) and of the tool  *)
(* calls that run against it on one JavaScript event loop.  A tool call    *)
(* is a process; every action below is one synchronous segment of a call, *)
(* from one `await` (embedding or LLM call) to the next.  A better-sqlite3 *)
(* transaction is synchronous: while it is open only its owner steps.      *)
(*                                                                         *)
(* Numbers: running_intensity is a rational <<num, den>>; an embedding is  *)
(* an integer vector whose Euclidean norm is an integer, so that cosine    *)
(* similarity is the exact rational dot / (|a| * |b|).                     *)
(***************************************************************************)
EXTENDS Integers, Sequences, FiniteSets, TLC

(***************************************************************************)
(* Bounds of the model.                                                    *)
(***************************************************************************)
NumProcs == 2
MaxOps == 2
MaxSeqOps == 3
MaxChunks == 3
MaxFacts == 2
MaxSeed == 3
MaxForgetOps == 2
MaxIsoOps == 2

Procs == 1 .. NumProcs

(***************************************************************************)
(* Program constants.                                                      *)
(***************************************************************************)
\* thresholds as rationals <<num, den>>
DUPLICATE_THRESHOLD == <<93, 100>>
AMBIGUOUS_THRESHOLD == <<78, 100>>
TOP_K_CANDIDATES == 5
DEFAULT_MAX_SEARCH_FACTS == 10000
DEFAULT_MAX_SEARCH_CHUNKS == 10000
DEFAULT_FORGET_THRESHOLD == <<7, 10>>
DEFAULT_MIN_SIMILARITY == <<1, 10>>
DEFAULT_LIMIT == 10
MAX_TEXT_LENGTH == 10000
STRENGTH_FLOOR == <<1, 20>>
RETRIEVAL_BOOST == <<1, 50>>
DEFAULT_INTENSITY == <<1, 2>>
W_SIMILARITY == <<6, 10>>
W_STRENGTH == <<3, 10>>
W_RECENCY == <<1, 10>>

NULL == 0
\* content_hash IS NULL
NO_HASH == <<>>
GLOBAL_SCOPE == ""

(***************************************************************************)
(* Exact rational arithmetic on pairs <<num, den>>, den > 0.               *)
(***************************************************************************)
Abs(x) == IF x < 0 THEN -x ELSE x

RECURSIVE Gcd(_, _)
Gcd(a, b) == IF b = 0 THEN a ELSE Gcd(b, a % b)

RNorm(n, d) ==
    LET g == Gcd(Abs(n), d)
    IN  IF n = 0 THEN <<0, 1>> ELSE <<n \div g, d \div g>>

RAdd(x, y) == RNorm(x[1] * y[2] + y[1] * x[2], x[2] * y[2])
RMul(x, y) == RNorm(x[1] * y[1], x[2] * y[2])
RLt(x, y) == x[1] * y[2] < y[1] * x[2]
RLe(x, y) == x[1] * y[2] <= y[1] * x[2]
RMin(x, y) == IF RLt(y, x) THEN y ELSE x
RMax(x, y) == IF RLt(x, y) THEN y ELSE x

(***************************************************************************)
(* strength.ts                                                             *)
(***************************************************************************)
\* (oldIntensity * encounterCount + newReading) / (encounterCount + 1)
updatedIntensity(oldIntensity, encounterCount, newReading) ==
    LET sum == RAdd(RMul(oldIntensity, <<encounterCount, 1>>), newReading)
    IN  RNorm(sum[1], sum[2] * (encounterCount + 1))

\* Math.min(1.0, runningIntensity + RETRIEVAL_BOOST)
retrievalBoost(runningIntensity) ==
    RMin(<<1, 1>>, RAdd(runningIntensity, RETRIEVAL_BOOST))

\* 0.6 * similarity + 0.3 * strength + 0.1 * recency
searchScore(similarity, strength, recency) ==
    RAdd(RAdd(RMul(W_SIMILARITY, similarity), RMul(W_STRENGTH, strength)),
         RMul(W_RECENCY, recency))

(***************************************************************************)
(* similarity.ts: cosine similarity of two vectors of equal length.        *)
(***************************************************************************)
RECURSIVE DotFrom(_, _, _)
DotFrom(a, b, i) ==
    IF i > Len(a) THEN 0 ELSE a[i] * b[i] + DotFrom(a, b, i + 1)

RECURSIVE ISqrtFrom(_, _)
ISqrtFrom(n, r) == IF (r + 1) * (r + 1) > n THEN r ELSE ISqrtFrom(n, r + 1)

\* Math.sqrt on the perfect squares the model's vectors produce
ISqrt(n) == ISqrtFrom(n, 0)

cosineSimilarity(a, b) ==
    LET dot == DotFrom(a, b, 1)
        denom == ISqrt(DotFrom(a, a, 1)) * ISqrt(DotFrom(b, b, 1))
    IN  IF denom = 0 THEN <<0, 1>> ELSE RNorm(dot, denom)

(***************************************************************************)
(* The injected capabilities.  embed is a function of the text; the texts  *)
(* of the model and their vectors (all of integer norm):                   *)
(*   cos(a,b) = 0.96   cos(a,c) = 0.88   cos(b,c) = 0.7216                 *)
(*   cos(a,e) = 0.8    cos(c,e) = 0.44   d orthogonal to a, b, c, e        *)
(*   cos(a,f) = 0.78   cos(a,g) = 0.93   cos(f,g) = 0.9514                 *)
(*   cos(d,f) = 0      cos(d,g) = 0.03                                     *)
(***************************************************************************)
Texts == {"a", "b", "c", "d", "e", "f", "g"}

embed(text) ==
    CASE text = "a" -> <<1, 0, 0, 0, 0>>
      [] text = "b" -> <<24, 7, 0, 0, 0>>
      [] text = "c" -> <<22, -11, 4, 2, 0>>
      [] text = "e" -> <<4, 3, 0, 0, 0>>
      [] text = "f" -> <<39, 31, 3, 3, 0>>
      [] text = "g" -> <<93, 35, 9, 6, 3>>
      [] OTHER -> <<0, 0, 0, 0, 1>>

\* hash.ts: SHA-256 hex digest, collision-free on the model's texts
contentHash(content) == <<"sha256", content>>

Verdicts == {"DUPLICATE", "SUPERSEDES", "DISTINCT"}

(***************************************************************************)
(* extractor.ts: classifyConflict.  The response of the LLM is text; the   *)
(* model keeps a text it takes apart as the sequence of its characters.    *)
(***************************************************************************)
LowerCase ==
    <<"a", "b", "c", "d", "e", "f", "g", "h", "i", "j", "k", "l", "m",
      "n", "o", "p", "q", "r", "s", "t", "u", "v", "w", "x", "y", "z">>
UpperCase ==
    <<"A", "B", "C", "D", "E", "F", "G", "H", "I", "J", "K", "L", "M",
      "N", "O", "P", "Q", "R", "S", "T", "U", "V", "W", "X", "Y", "Z">>

\* /[A-Za-z]/
IsLetter(c) == \E k \in DOMAIN LowerCase : c = LowerCase[k] \/ c = UpperCase[k]

\* /\s/, of which the model's texts use these
IsSpace(c) == c \in {" ", "\n", "\t"}

\* String.prototype.toUpperCase, character by character
toUpperCase(text) ==
    [k \in DOMAIN text |->
        IF \E j \in DOMAIN LowerCase : text[k] = LowerCase[j]
        THEN UpperCase[CHOOSE j \in DOMAIN LowerCase : text[k] = LowerCase[j]]
        ELSE text[k]]

\* String.prototype.trim
RECURSIVE trimStart(_)
trimStart(text) ==
    IF text # <<>> /\ IsSpace(Head(text)) THEN trimStart(Tail(text)) ELSE text

RECURSIVE trimEnd(_)
trimEnd(text) ==
    IF text # <<>> /\ IsSpace(text[Len(text)])
    THEN trimEnd(SubSeq(text, 1, Len(text) - 1)) ELSE text

trim(text) == trimEnd(trimStart(text))

\* text.split(/\s/)[0]: the text up to its first whitespace character
RECURSIVE firstToken(_)
firstToken(text) ==
    IF text = <<>> \/ IsSpace(Head(text)) THEN <<>>
    ELSE <<Head(text)>> \o firstToken(Tail(text))

\* .replace(/[^A-Za-z]/g, "")
lettersOnly(text) == SelectSeq(text, IsLetter)

\* the first word of the response, as classifyConflict compares it
firstWord(response) == toUpperCase(lettersOnly(firstToken(trim(response))))

DUPLICATE == <<"D", "U", "P", "L", "I", "C", "A", "T", "E">>
SUPERSEDES == <<"S", "U", "P", "E", "R", "S", "E", "D", "E", "S">>
DISTINCT == <<"D", "I", "S", "T", "I", "N", "C", "T">>

\* a classifier that takes what it cannot read for a duplicate
classifyConflict_defaultDuplicate(response) ==
    LET word == firstWord(response)
    IN  IF word = SUPERSEDES THEN "SUPERSEDES"
        ELSE IF word = DISTINCT THEN "DISTINCT"
        ELSE "DUPLICATE"

\* firstWord is one of the three: that one; "Default to DISTINCT if LLM
\* returns garbage"
classifyConflict(response) ==
    LET word == firstWord(response)
    IN  IF word = DUPLICATE THEN "DUPLICATE"
        ELSE IF word = SUPERSEDES THEN "SUPERSEDES"
        ELSE IF word = DISTINCT THEN "DISTINCT"
        ELSE "DISTINCT"

\* classifyConflict was not called
NO_RESPONSE == <<>>

\* the responses of an LLM that answers with the word alone
Responses == {DUPLICATE, SUPERSEDES, DISTINCT}


(***************************************************************************)
(* State.                                                                  *)
(*   db      chunks table: chunk id |-> row                                *)
(*   procs   the tool calls in flight, one record per call slot            *)
(*   tx      the open transaction: its owner (0 = none) and the database   *)
(*           as it was at BEGIN, restored by ROLLBACK                      *)
(*   nextId  ulid(): ids are unique and increase with time                 *)
(*   clock   new Date(): every reading is later than the one before        *)
(*   opsLeft tool calls the model may still start                          *)
(*   blocks  memory_blocks table: <<agent_id, scope, key>> |-> row         *)
(*   meta    hippo_meta table: the value of key 'embedding_model'          *)
(*   opened  the last verifyEmbeddingModel call: its argument and error    *)
(***************************************************************************)
VARIABLES db, procs, tx, nextId, clock, opsLeft, blocks, meta, opened,
          dump, restored

vars == <<db, procs, tx, nextId, clock, opsLeft, blocks, meta, opened,
         dump, restored>>

EmptyDb == [i \in {} |-> 0]
NoTx == [owner |-> 0, snap |-> EmptyDb]
EmptyBlocks == [i \in {} |-> 0]
\* hippo_meta has no row for key 'embedding_model'
NO_MODEL == "(no row)"
\* verifyEmbeddingModel has not been called
NotOpened == [model |-> NO_MODEL, err |-> ""]
\* `hippo export` has not been run
NoDump == [agentId |-> "", chunks |-> <<>>, blocks |-> <<>>]
\* `hippo import` has not been run
NotRestored ==
    [db |-> EmptyDb, blocks |-> EmptyBlocks, done |-> FALSE,
     chunksSkipped |-> 0, blocksSkipped |-> 0]

IdleProc ==
    [op |-> "idle", pc |-> "idle", agent |-> "", scope |-> "",
     facts |-> <<>>, idx |-> 0, ws |-> <<>>, now |-> 0,
     best |-> NULL, newId |-> NULL, actions |-> <<>>, made |-> {},
     text |-> "", kind |-> "", limit |-> 0, matches |-> <<>>,
     resurrected |-> {}, aged |-> {}, result |-> <<>>, delivered |-> <<>>,
     status |-> "", err |-> "", cancelled |-> FALSE,
     key |-> "", value |-> <<>>, verdict |-> "", response |-> <<>>,
     faults |-> <<>>, length |-> 0, maxLen |-> 0, maxContentLength |-> {},
     edit |-> <<>>]

(***************************************************************************)
(* db.ts: the prepared statements, as functions of the table.              *)
(***************************************************************************)
Rows(d) == DOMAIN d

\* the table without its dedup index
UniqueViolation_none(d, row) == FALSE

\* CREATE UNIQUE INDEX idx_chunks_memory_dedup
\*   ON chunks(agent_id, scope, content_hash) WHERE kind = 'memory'
UniqueViolation(d, row) ==
    /\ row.kind = "memory"
    /\ \E i \in Rows(d) :
          /\ d[i].kind = "memory"
          /\ d[i].agent_id = row.agent_id
          /\ d[i].scope = row.scope
          /\ d[i].content_hash = row.content_hash

\* INSERT INTO chunks (...): superseded_by is not bound and stays NULL
insertChunk(d, row) == d @@ (row.id :> [row EXCEPT !.superseded_by = NULL])

\* the UPDATE without `encounter_count = encounter_count + 1`
reinforceChunk_noCount(d, id, intensity, at) ==
    [i \in Rows(d) |->
        IF i = id
        THEN [d[i] EXCEPT !.running_intensity = intensity,
                          !.access_count = @ + 1,
                          !.last_accessed_at = at]
        ELSE d[i]]

\* UPDATE chunks SET running_intensity, encounter_count + 1,
\*   access_count + 1, last_accessed_at WHERE id = @id
reinforceChunk(d, id, intensity, at) ==
    [i \in Rows(d) |->
        IF i = id
        THEN [d[i] EXCEPT !.running_intensity = intensity,
                          !.encounter_count = @ + 1,
                          !.access_count = @ + 1,
                          !.last_accessed_at = at]
        ELSE d[i]]

\* a supersession that removes the old row
supersedeChunk_remove(d, newId, oldId) == [i \in Rows(d) \ {oldId} |-> d[i]]

\* UPDATE chunks SET superseded_by = ? WHERE id = ?
supersedeChunk(d, newId, oldId) ==
    [i \in Rows(d) |->
        IF i = oldId THEN [d[i] EXCEPT !.superseded_by = newId] ELSE d[i]]

\* the UPDATE without `access_count = access_count + 1`
touchChunk_noCount(d, id, intensity, at) ==
    [i \in Rows(d) |->
        IF i = id
        THEN [d[i] EXCEPT !.running_intensity = intensity,
                          !.last_accessed_at = at]
        ELSE d[i]]

\* UPDATE chunks SET access_count + 1, running_intensity, last_accessed_at
touchChunk(d, id, intensity, at) ==
    [i \in Rows(d) |->
        IF i = id
        THEN [d[i] EXCEPT !.access_count = @ + 1,
                          !.running_intensity = intensity,
                          !.last_accessed_at = at]
        ELSE d[i]]

\* the UPDATE without `superseded_by = ?`: every link of the scope goes
clearSupersededByScoped_all(d, target, agent, scope) ==
    [i \in Rows(d) |->
        IF d[i].agent_id = agent /\ d[i].scope = scope
        THEN [d[i] EXCEPT !.superseded_by = NULL]
        ELSE d[i]]

\* the UPDATE without `AND agent_id = ? AND scope = ?`
clearSupersededByScoped_unscoped(d, target, agent, scope) ==
    [i \in Rows(d) |->
        IF d[i].superseded_by = target
        THEN [d[i] EXCEPT !.superseded_by = NULL]
        ELSE d[i]]

\* UPDATE chunks SET superseded_by = NULL
\*   WHERE superseded_by = ? AND agent_id = ? AND scope = ?
clearSupersededByScoped(d, target, agent, scope) ==
    [i \in Rows(d) |->
        IF d[i].superseded_by = target /\ d[i].agent_id = agent
           /\ d[i].scope = scope
        THEN [d[i] EXCEPT !.superseded_by = NULL]
        ELSE d[i]]

\* DELETE FROM chunks WHERE id = ?
deleteChunkStmt(d, id) == [i \in Rows(d) \ {id} |-> d[i]]

\* the SELECT without `AND kind = ?`
getActiveChunksByAgentAndScope_anyKind(d, agent, kind, scope) ==
    {i \in Rows(d) : /\ d[i].agent_id = agent
                     /\ d[i].scope = scope
                     /\ d[i].superseded_by = NULL}

\* the SELECT without `AND scope = ?`
getActiveChunksByAgentAndScope_anyScope(d, agent, kind, scope) ==
    {i \in Rows(d) : /\ d[i].agent_id = agent
                     /\ d[i].kind = kind
                     /\ d[i].superseded_by = NULL}

\* SELECT ... WHERE agent_id = ? AND kind = ? AND scope = ?
\*   AND superseded_by IS NULL
getActiveChunksByAgentAndScope(d, agent, kind, scope) ==
    {i \in Rows(d) : /\ d[i].agent_id = agent
                     /\ d[i].kind = kind
                     /\ d[i].scope = scope
                     /\ d[i].superseded_by = NULL}

\* SELECT ... WHERE agent_id = ? AND kind = ? AND superseded_by IS NULL
getActiveChunksByAgent(d, agent, kind) ==
    {i \in Rows(d) : /\ d[i].agent_id = agent
                     /\ d[i].kind = kind
                     /\ d[i].superseded_by = NULL}

\* the SELECT without `AND superseded_by IS NULL`
getAllActiveChunksByAgent_all(d, agent) ==
    {i \in Rows(d) : d[i].agent_id = agent}

\* SELECT ... WHERE agent_id = ? AND superseded_by IS NULL
getAllActiveChunksByAgent(d, agent) ==
    {i \in Rows(d) : d[i].agent_id = agent /\ d[i].superseded_by = NULL}

\* the SELECT without `agent_id = ?`
getMemoryByHash_anyAgent(d, agent, hash) ==
    {i \in Rows(d) : /\ d[i].content_hash = hash
                     /\ d[i].kind = "memory"
                     /\ d[i].superseded_by = NULL}

\* SELECT ... WHERE agent_id = ? AND content_hash = ? AND kind = 'memory'
\*   AND superseded_by IS NULL
getMemoryByHash(d, agent, hash) ==
    {i \in Rows(d) : /\ d[i].agent_id = agent
                     /\ d[i].content_hash = hash
                     /\ d[i].kind = "memory"
                     /\ d[i].superseded_by = NULL}

\* ORDER BY last_accessed_at DESC LIMIT ?: the orders SQLite may return
\* the rows in (rows of equal last_accessed_at come in any order)
OrderedRows(d, ids, limit) ==
    LET n == Cardinality(ids)
        perms == {s \in [1 .. n -> ids] :
                     /\ \A i, j \in 1 .. n : i # j => s[i] # s[j]
                     /\ \A i, j \in 1 .. n :
                           i < j => d[s[i]].last_accessed_at
                                      >= d[s[j]].last_accessed_at}
        m == IF limit < n THEN limit ELSE n
    IN  {[k \in 1 .. m |-> d[s[k]]] : s \in perms}

\* normalizeScope: trim, undefined becomes ''
normalizeScope(scope) == IF scope = " " THEN GLOBAL_SCOPE ELSE scope

(***************************************************************************)
(* Transactions (better-sqlite3 db.transaction): the function body runs    *)
(* between BEGIN and COMMIT; a throw inside it runs ROLLBACK.              *)
(***************************************************************************)
TxBegin(p, d) == [owner |-> p, snap |-> d]

\* statements run outside a transaction: a throw undoes nothing
TxRollback_none(snap, d) == d

\* ROLLBACK: the table is again what it was at BEGIN
TxRollback(snap, d) == snap

\* Only the owner of an open transaction runs; with none open, anyone may.
MayStep(p) == tx.owner = 0 \/ tx.owner = p

\* a call slot is free when no call is in flight in it
FreePcs == {"idle", "done", "failed"}

FreeSlot(p) == procs[p].pc \in FreePcs

\* the slots are interchangeable: a new call takes the lowest free one
LowestFree(p) == \A q \in Procs : q < p => procs[q].pc \notin FreePcs

(***************************************************************************)
(* External calls.  A call is suspended in an embedding or LLM call until  *)
(* the capability settles the promise.  The providers hand the abort       *)
(* signal to fetch, so a call whose signal fired while it was in flight    *)
(* rejects, whatever the service would have answered.                      *)
(***************************************************************************)
SuspendedPcs == {"extract", "embed", "classify"}

\* how the promise settles: fulfilled, rejected by the service, or rejected
\* because the abort signal fired while the request was in flight
Outcomes == {"ok", "error", "cancelled"}

\* the `code` of the error a statement of better-sqlite3 throws; the last
\* stands for every code but busy and locked, and for an error without one
StorageCodes == {"SQLITE_BUSY", "SQLITE_LOCKED", "SQLITE_IOERR"}

\* the statement ran
NO_FAULT == ""

\* a capability that ignores the abort signal
CallOutcome_deaf(outcome) == IF outcome = "cancelled" THEN "ok" ELSE outcome

CallOutcome(outcome) == outcome

\* execute() is over: its locals are gone; what stays is what the caller
\* got (result or err) and, for the record, what the call had done
Finished(rec) ==
    [rec EXCEPT !.ws = <<>>, !.now = 0, !.best = NULL, !.newId = NULL,
                !.matches = <<>>]

\* a rejection that carries the action log collected so far
Rejected_withLog(rec, outcome) ==
    Finished([rec EXCEPT !.pc = "failed", !.err = "Error",
                         !.result = <<>>, !.delivered = rec.actions])

\* the rejection reaches the caller: the call is over, nothing is returned
Rejected(rec, outcome) ==
    Finished([rec EXCEPT !.pc = "failed",
                         !.err = CASE outcome = "cancelled" -> "Cancelled"
                                   [] outcome = "constraint" ->
                                        "SQLITE_CONSTRAINT_UNIQUE"
                                   [] outcome = "notfound" -> "Chunk not found"
                                   [] outcome = "disappeared" ->
                                        "Chunk disappeared during update"
                                   [] outcome \in StorageCodes -> outcome
                                   [] outcome = "textTooLong" ->
                                        "Input text too long"
                                   [] outcome = "contentTooLong" ->
                                        "Content too long"
                                   [] OTHER -> "Error",
                         !.result = <<>>, !.delivered = <<>>])

\* execute() returns `result`
Returned(rec, result) ==
    Finished([rec EXCEPT !.pc = "done", !.result = result])

\* the signal of the call has fired (AbortSignal.aborted)
Aborted(rec, outcome) == [rec EXCEPT !.cancelled = (outcome = "cancelled")]

(***************************************************************************)
(* remember-facts.ts                                                       *)
(***************************************************************************)
Sim(emb, chunk) == cosineSimilarity(emb, chunk.embedding)

\* Array.prototype.sort with (a, b) => b.key - a.key is stable: of the
\* entries not yet placed, the first one of greatest key comes next.
\* keys is the sequence of keys; the result is the sequence of indexes.
RECURSIVE SortDescending(_, _)
SortDescending(keys, left) ==
    IF left = {} THEN <<>>
    ELSE LET top == CHOOSE i \in left :
                       \A j \in left :
                          \/ RLt(keys[j], keys[i])
                          \/ (keys[j] = keys[i] /\ i <= j)
         IN  <<top>> \o SortDescending(keys, left \ {top})

\* array.slice(0, n)
Slice(seq, n) == SubSeq(seq, 1, IF Len(seq) < n THEN Len(seq) ELSE n)

\* indexes into existingChunks of the topK most similar, best first
findTopCandidates(queryEmbedding, existingChunks, topK) ==
    LET keys == [i \in DOMAIN existingChunks |->
                    Sim(queryEmbedding, existingChunks[i])]
    IN  Slice(SortDescending(keys, DOMAIN existingChunks), topK)

\* existingFacts.indexOf(best.chunk)
IndexOfId(chunks, id) ==
    IF \E i \in DOMAIN chunks : chunks[i].id = id
    THEN CHOOSE i \in DOMAIN chunks : chunks[i].id = id
    ELSE 0

\* existingFacts.splice(idx, 1)
Splice(chunks, idx) ==
    [k \in 1 .. (Len(chunks) - 1) |-> IF k < idx THEN chunks[k] ELSE chunks[k + 1]]

\* the Chunk object processFact composes for a new fact
NewFactChunk(rec, id) ==
    [id |-> id, agent_id |-> rec.agent, scope |-> rec.scope,
     content |-> rec.facts[rec.idx].fact, content_hash |-> NO_HASH,
     embedding |-> embed(rec.facts[rec.idx].fact), kind |-> "fact",
     running_intensity |-> rec.facts[rec.idx].intensity,
     encounter_count |-> 1, access_count |-> 0,
     last_accessed_at |-> rec.now, created_at |-> rec.now,
     superseded_by |-> NULL]

\* the DUPLICATE branch: the working-set entry after the reinforcement
ReinforcedEntry(chunk, newIntensity, at) ==
    [chunk EXCEPT !.access_count = @ + 1,
                  !.encounter_count = @ + 1,
                  !.last_accessed_at = at,
                  !.running_intensity = newIntensity]

\* processFact without the update of the in-memory array
AfterFact_noPush(rec, action, ws, made) ==
    LET acts == Append(rec.actions, action)
        base == [rec EXCEPT !.actions = acts, !.made = made,
                            !.best = NULL, !.newId = NULL]
    IN  IF rec.idx < Len(rec.facts)
        THEN [base EXCEPT !.idx = rec.idx + 1, !.now = clock, !.pc = "embed"]
        ELSE [Returned([base EXCEPT !.delivered = acts],
                       [k \in DOMAIN acts |-> acts[k].id])
                 EXCEPT !.ws = rec.ws]

\* actions.push(action) and the next turn of `for (... of extracted)`:
\* processFact of the next fact reads the clock and suspends in embed();
\* after the last fact the call returns the action log, and the record
\* keeps the array as the last fact left it.  An entry of the
\* log names the action and the content; `id` and `old` record beside it
\* the row the action wrote or reinforced and the row it replaced.
AfterFact(rec, action, ws, made) ==
    LET acts == Append(rec.actions, action)
        base == [rec EXCEPT !.actions = acts, !.ws = ws, !.made = made,
                            !.best = NULL, !.newId = NULL]
    IN  IF rec.idx < Len(rec.facts)
        THEN [base EXCEPT !.idx = rec.idx + 1, !.now = clock, !.pc = "embed"]
        ELSE [Returned([base EXCEPT !.delivered = acts],
                       [k \in DOMAIN acts |-> acts[k].id])
                 EXCEPT !.ws = ws]

ClockAfterFact(rec) == IF rec.idx < Len(rec.facts) THEN clock + 1 ELSE clock

\* the batch inside one outer transaction: a failure undoes all of it
AfterFailure_rollbackBatch(rec, d) == [i \in Rows(d) \ rec.made |-> d[i]]

\* processFact throws and the error leaves the `for` loop and execute():
\* no transaction wraps the batch, so the table keeps what the facts
\* before this one wrote
AfterFailure(rec, d) == d

\* an option of the tool that may be left out: {} when it is, {n} when set
Unset == {}
OptionOr(option, default) ==
    IF option = Unset THEN default ELSE CHOOSE n \in option : TRUE

\* a tool that lets every text through
TextTooLong_never(length, maxLen) == FALSE

\* params.text.length > maxLen
TextTooLong(length, maxLen) == length > maxLen

\* execute() of a tool created with `maxTextLength`, on a text of `length`
\* characters: a text over the limit is rejected on the spot, any other
\* text goes to the LLM and the call is suspended in extractFacts
RememberCall(p, agent, scope, length, maxTextLength) ==
    LET maxLen == OptionOr(maxTextLength, MAX_TEXT_LENGTH)
        rec == [IdleProc EXCEPT !.op = "remember", !.agent = agent,
                                !.scope = normalizeScope(scope),
                                !.length = length, !.maxLen = maxLen]
    IN  /\ MayStep(p)
        /\ FreeSlot(p)
        /\ opsLeft > 0
        /\ opsLeft' = opsLeft - 1
        /\ procs' = [procs EXCEPT ![p] =
                        IF TextTooLong(length, maxLen)
                        THEN Rejected(rec, "textTooLong")
                        ELSE [rec EXCEPT !.pc = "extract"]]
        /\ UNCHANGED <<db, tx, nextId, clock>>

\* the same, of a tool with the default limit on a text of one character
RememberStart(p, agent, scope) == RememberCall(p, agent, scope, 1, Unset)

\* the reading of the LLM taken as it comes
clampIntensity_none(intensity) == intensity

\* Math.max(0, Math.min(1, f.intensity))
clampIntensity(intensity) == RMax(<<0, 1>>, RMin(<<1, 1>>, intensity))

\* extractFacts: the facts of the parsed response, their intensity clamped
Extracted(parsed) ==
    [k \in DOMAIN parsed |->
        [fact |-> parsed[k].fact,
         intensity |-> clampIntensity(parsed[k].intensity)]]

\* extractFacts settled, its response parsed: none -> "No facts extracted.";
\* otherwise load the working set and start processFact of the first fact
ExtractReturn(p, parsed, outcome) ==
    LET rec == Aborted(procs[p], outcome)
        o == CallOutcome(outcome)
        facts == Extracted(parsed)
    IN  /\ MayStep(p)
        /\ rec.op = "remember" /\ rec.pc = "extract"
        /\ IF o # "ok"
           THEN /\ procs' = [procs EXCEPT ![p] = Rejected(rec, o)]
                /\ UNCHANGED clock
           ELSE IF facts = <<>>
           THEN /\ procs' = [procs EXCEPT ![p] =
                               Returned(rec, <<>>)]
                /\ UNCHANGED clock
           ELSE /\ \E ws \in OrderedRows(db,
                        getActiveChunksByAgentAndScope(db, rec.agent, "fact",
                                                       rec.scope),
                        DEFAULT_MAX_SEARCH_FACTS) :
                      procs' = [procs EXCEPT ![p] =
                                  [rec EXCEPT !.facts = facts, !.idx = 1,
                                              !.ws = ws, !.now = clock,
                                              !.pc = "embed"]]
                /\ clock' = clock + 1
        /\ UNCHANGED <<db, tx, nextId, opsLeft>>

\* the NEW and DISTINCT branches: insertChunk, existingFacts.push(chunk)
InsertFact(p, verdict, response) ==
    LET rec == [procs[p] EXCEPT !.verdict = verdict, !.response = response]
        chunk == NewFactChunk(rec, nextId)
        f == rec.facts[rec.idx]
    IN  /\ nextId <= MaxChunks
        /\ db' = insertChunk(db, chunk)
        /\ nextId' = nextId + 1
        /\ procs' = [procs EXCEPT ![p] =
                       AfterFact(rec,
                                 [action |-> "inserted", content |-> f.fact,
                                  id |-> nextId, old |-> NULL],
                                 Append(rec.ws, chunk),
                                 rec.made \cup {nextId})]
        /\ clock' = ClockAfterFact(rec)
        /\ UNCHANGED <<tx, opsLeft>>

\* the DUPLICATE branch: reinforceChunk on best, then the in-memory entry
ReinforceFact(p, bestIdx, verdict, response) ==
    LET rec == [procs[p] EXCEPT !.verdict = verdict, !.response = response]
        best == rec.ws[bestIdx]
        f == rec.facts[rec.idx]
        newIntensity == updatedIntensity(best.running_intensity,
                                         best.encounter_count, f.intensity)
        idx == IndexOfId(rec.ws, best.id)
        ws == IF idx # 0
              THEN [rec.ws EXCEPT ![idx] =
                       ReinforcedEntry(best, newIntensity, rec.now)]
              ELSE rec.ws
    IN  /\ db' = reinforceChunk(db, best.id, newIntensity, rec.now)
        /\ procs' = [procs EXCEPT ![p] =
                       AfterFact([rec EXCEPT !.best = best.id],
                                 [action |-> "reinforced",
                                  content |-> best.content, id |-> best.id,
                                  old |-> NULL],
                                 ws, rec.made)]
        /\ clock' = ClockAfterFact(rec)
        /\ UNCHANGED <<tx, nextId, opsLeft>>

\* the SUPERSEDES branch, first statement of the transaction:
\* BEGIN; insertChunk.run(chunk)
SupersedeInsert(p, bestIdx, verdict, response) ==
    LET rec == [procs[p] EXCEPT !.verdict = verdict, !.response = response]
        chunk == NewFactChunk(rec, nextId)
    IN  /\ nextId <= MaxChunks
        /\ tx' = TxBegin(p, db)
        /\ db' = insertChunk(db, chunk)
        /\ nextId' = nextId + 1
        /\ procs' = [procs EXCEPT ![p] =
                       [rec EXCEPT !.pc = "sup_mark",
                                   !.best = rec.ws[bestIdx].id,
                                   !.newId = nextId]]
        /\ UNCHANGED <<clock, opsLeft>>

\* the comparison with `<=` in place of `<`
BelowAmbiguous_le(similarity) == ~RLt(AMBIGUOUS_THRESHOLD, similarity)

\* best.similarity < AMBIGUOUS_THRESHOLD
BelowAmbiguous(similarity) == RLt(similarity, AMBIGUOUS_THRESHOLD)

\* the comparison with `>=` in place of `>`
AboveDuplicate_ge(similarity) == ~RLt(similarity, DUPLICATE_THRESHOLD)

\* best.similarity > DUPLICATE_THRESHOLD
AboveDuplicate(similarity) == RLt(DUPLICATE_THRESHOLD, similarity)

\* embed() settled: find the best candidate and branch on its similarity;
\* `verdict` of the call record is what classifyConflict answered for the
\* current fact, empty when it was not asked
EmbedReturn(p, outcome) ==
    LET rec == Aborted(procs[p], outcome)
        o == CallOutcome(outcome)
        embedding == embed(rec.facts[rec.idx].fact)
        candidates == findTopCandidates(embedding, rec.ws, TOP_K_CANDIDATES)
    IN  /\ MayStep(p)
        /\ rec.op = "remember" /\ rec.pc = "embed"
        /\ IF o # "ok"
           THEN /\ procs' = [procs EXCEPT ![p] = Rejected(rec, o)]
                /\ db' = AfterFailure(rec, db)
                /\ UNCHANGED <<tx, nextId, clock, opsLeft>>
           ELSE IF \/ candidates = <<>>
                   \/ BelowAmbiguous(Sim(embedding, rec.ws[candidates[1]]))
           THEN InsertFact(p, "", NO_RESPONSE)
           ELSE IF AboveDuplicate(Sim(embedding, rec.ws[candidates[1]]))
           THEN ReinforceFact(p, candidates[1], "", NO_RESPONSE)
           ELSE /\ procs' = [procs EXCEPT ![p] =
                               [rec EXCEPT !.pc = "classify",
                                           !.verdict = "",
                                           !.response = NO_RESPONSE,
                                           !.best = rec.ws[candidates[1]].id]]
                /\ UNCHANGED <<db, tx, nextId, clock, opsLeft>>

\* llm.complete settled with `response`, which classifyConflict reads
ClassifyReturn(p, response, outcome) ==
    LET rec == Aborted(procs[p], outcome)
        verdict == classifyConflict(response)
        o == CallOutcome(outcome)
        bestIdx == IndexOfId(rec.ws, rec.best)
    IN  /\ MayStep(p)
        /\ rec.op = "remember" /\ rec.pc = "classify"
        /\ IF o # "ok"
           THEN /\ procs' = [procs EXCEPT ![p] = Rejected(rec, o)]
                /\ db' = AfterFailure(rec, db)
                /\ UNCHANGED <<tx, nextId, clock, opsLeft>>
           ELSE CASE verdict = "DUPLICATE" ->
                         ReinforceFact(p, bestIdx, verdict, response)
                  [] verdict = "SUPERSEDES" ->
                         SupersedeInsert(p, bestIdx, verdict, response)
                  [] verdict = "DISTINCT" ->
                         InsertFact(p, verdict, response)

\* second statement of the transaction and COMMIT:
\* supersedeChunk.run(newId, best.chunk.id); then the in-memory array
SupersedeMark(p) ==
    LET rec == procs[p]
        chunk == NewFactChunk(rec, rec.newId)
        idx == IndexOfId(rec.ws, rec.best)
        ws == Append(IF idx # 0 THEN Splice(rec.ws, idx) ELSE rec.ws, chunk)
    IN  /\ MayStep(p)
        /\ rec.op = "remember" /\ rec.pc = "sup_mark"
        /\ db' = supersedeChunk(db, rec.newId, rec.best)
        /\ tx' = NoTx
        /\ procs' = [procs EXCEPT ![p] =
                       AfterFact(rec,
                                 [action |-> "superseded",
                                  content |-> chunk.content, id |-> rec.newId,
                                  old |-> rec.best],
                                 ws, rec.made \cup {rec.newId})]
        /\ clock' = ClockAfterFact(rec)
        /\ UNCHANGED <<nextId, opsLeft>>

\* a statement of the transaction throws (storage error `code`): ROLLBACK,
\* and the error leaves processFact and execute
SupersedeFail(p, code) ==
    LET rec == [procs[p] EXCEPT !.faults = <<code>>]
    IN  /\ MayStep(p)
        /\ rec.op = "remember" /\ rec.pc = "sup_mark"
        /\ db' = AfterFailure(rec, TxRollback(tx.snap, db))
        /\ tx' = NoTx
        /\ procs' = [procs EXCEPT ![p] = Rejected(rec, code)]
        /\ UNCHANGED <<nextId, clock, opsLeft>>

(***************************************************************************)
(* store-memory.ts                                                         *)
(***************************************************************************)
\* the row store_memory inserts; it binds no scope, the column default ''
\* applies
NewMemoryChunk(rec, id) ==
    [id |-> id, agent_id |-> rec.agent, scope |-> GLOBAL_SCOPE,
     content |-> rec.text, content_hash |-> contentHash(rec.text),
     embedding |-> embed(rec.text), kind |-> "memory",
     running_intensity |-> DEFAULT_INTENSITY,
     encounter_count |-> 1, access_count |-> 0,
     last_accessed_at |-> rec.now, created_at |-> rec.now,
     superseded_by |-> NULL]

\* getMemoryByHash.get(...): the first row of the result, if any
FirstRow(ids) == IF ids = {} THEN NULL ELSE CHOOSE i \in ids : \A j \in ids : i <= j

\* the re-encounter that keeps the stored intensity
Strengthen_keepIntensity(d, id, at) ==
    reinforceChunk(d, id, d[id].running_intensity, at)

\* "Strengthen existing memory": re-encounter at the default intensity
Strengthen(d, id, at) ==
    reinforceChunk(d, id,
                   updatedIntensity(d[id].running_intensity,
                                    d[id].encounter_count, DEFAULT_INTENSITY),
                   at)

\* execute() up to the first await: hash look-up; a hit is strengthened
\* and the call returns, a miss suspends in embed()
StoreLookup(p, agent, content, rec) ==
    LET existing == FirstRow(getMemoryByHash(db, agent, contentHash(content)))
    IN  /\ MayStep(p)
        /\ FreeSlot(p)
        /\ opsLeft > 0
        /\ opsLeft' = opsLeft - 1
        /\ clock' = clock + 1
        /\ IF existing # NULL
           THEN /\ db' = Strengthen(db, existing, rec.now)
                /\ procs' = [procs EXCEPT ![p] =
                               Returned([rec EXCEPT !.status = "strengthened"],
                                        <<existing>>)]
           ELSE /\ db' = db
                /\ procs' = [procs EXCEPT ![p] = [rec EXCEPT !.pc = "embed"]]
        /\ UNCHANGED <<tx, nextId>>

StoreStart(p, agent, content) ==
    StoreLookup(p, agent, content,
                [IdleProc EXCEPT !.op = "store", !.agent = agent,
                                 !.scope = GLOBAL_SCOPE, !.text = content,
                                 !.now = clock])

\* a tool that lets every content through
ContentTooLong_never(content, maxContentLength) == FALSE

\* the content is longer than the `maxContentLength` the tool was created
\* with; a tool created without it sets no limit
ContentTooLong(content, maxContentLength) ==
    \E n \in maxContentLength : Len(content) > n

\* execute() of a tool created with `maxContentLength`: a content over the
\* limit is rejected on the spot, any other content is stored as above
StoreCall(p, agent, content, maxContentLength) ==
    LET rec == [IdleProc EXCEPT !.op = "store", !.agent = agent,
                                !.scope = GLOBAL_SCOPE, !.text = content,
                                !.now = clock,
                                !.length = Len(content),
                                !.maxContentLength = maxContentLength]
    IN  IF ContentTooLong(content, maxContentLength)
        THEN /\ MayStep(p)
             /\ FreeSlot(p)
             /\ opsLeft > 0
             /\ opsLeft' = opsLeft - 1
             /\ procs' = [procs EXCEPT ![p] = Rejected(rec, "contentTooLong")]
             /\ UNCHANGED <<db, tx, nextId, clock>>
        ELSE StoreLookup(p, agent, content, rec)

\* embed() settled: insert; on SQLITE_CONSTRAINT_UNIQUE re-read the row by
\* hash and strengthen it; if the re-read finds nothing the error is thrown
StoreEmbedReturn(p, outcome) ==
    LET rec == Aborted(procs[p], outcome)
        o == CallOutcome(outcome)
        chunk == NewMemoryChunk(rec, nextId)
        race == FirstRow(getMemoryByHash(db, rec.agent, contentHash(rec.text)))
    IN  /\ MayStep(p)
        /\ rec.op = "store" /\ rec.pc = "embed"
        /\ IF o # "ok"
           THEN /\ procs' = [procs EXCEPT ![p] = Rejected(rec, o)]
                /\ UNCHANGED <<db, nextId>>
           ELSE IF ~UniqueViolation(db, chunk)
           THEN /\ nextId <= MaxChunks
                /\ db' = insertChunk(db, chunk)
                /\ nextId' = nextId + 1
                /\ procs' = [procs EXCEPT ![p] =
                               Returned([rec EXCEPT !.made = {nextId},
                                                    !.status = "stored"],
                                        <<nextId>>)]
           ELSE IF race # NULL
           THEN /\ db' = Strengthen(db, race, rec.now)
                /\ UNCHANGED nextId
                /\ procs' = [procs EXCEPT ![p] =
                               Returned([rec EXCEPT !.status = "strengthened"],
                                        <<race>>)]
           ELSE /\ procs' = [procs EXCEPT ![p] = Rejected(rec, "constraint")]
                /\ UNCHANGED <<db, nextId>>
        /\ UNCHANGED <<tx, clock, opsLeft>>

(***************************************************************************)
(* recall-memories.ts                                                      *)
(***************************************************************************)
\* effectiveStrength: runningIntensity * exp(-LAMBDA / resistance * hours).
\* Wall-clock time is outside the model: the exponential is 1 for a chunk
\* accessed just now and below STRENGTH_FLOOR for one the call finds aged.
AGED_DECAY == <<1, 100>>

effectiveStrength(runningIntensity, aged) ==
    RMul(runningIntensity, IF aged THEN AGED_DECAY ELSE <<1, 1>>)

\* recencyScore(daysSince): chunks of one run were created days apart by 0
recencyScore == <<1, 1>>

\* execute() up to the await: reads the clock, suspends in embed(query)
RecallStart(p, agent, query, kind, limit) ==
    /\ MayStep(p)
    /\ FreeSlot(p)
    /\ opsLeft > 0
    /\ opsLeft' = opsLeft - 1
    /\ clock' = clock + 1
    /\ procs' = [procs EXCEPT ![p] =
                    [IdleProc EXCEPT !.op = "recall", !.pc = "embed",
                                     !.agent = agent, !.text = query,
                                     !.kind = kind, !.limit = limit,
                                     !.now = clock]]
    /\ UNCHANGED <<db, tx, nextId>>

\* scoring without the two `continue`s
Scored_noFloors(rows, queryEmbedding, aged) == rows

\* "Score and filter": the rows kept, in row order
Scored(rows, queryEmbedding, aged) ==
    SelectSeq(rows,
              LAMBDA chunk :
                 /\ ~RLt(Sim(queryEmbedding, chunk), DEFAULT_MIN_SIMILARITY)
                 /\ ~RLt(effectiveStrength(chunk.running_intensity,
                                           chunk.id \in aged),
                         STRENGTH_FLOOR))

Score(chunk, queryEmbedding, aged) ==
    searchScore(Sim(queryEmbedding, chunk),
                effectiveStrength(chunk.running_intensity, chunk.id \in aged),
                recencyScore)

\* scored.sort(by score).slice(0, limit): the chunks returned, best first
TopResults(rows, queryEmbedding, aged, limit) ==
    LET scored == Scored(rows, queryEmbedding, aged)
        keys == [i \in DOMAIN scored |-> Score(scored[i], queryEmbedding, aged)]
        order == Slice(SortDescending(keys, DOMAIN scored), limit)
    IN  [k \in DOMAIN order |-> scored[order[k]]]

\* a check that takes every storage error for transient
isSqliteTransient_all(code) == TRUE

\* TRANSIENT_SQLITE_CODES.has(err.code)
isSqliteTransient(code) == code \in {"SQLITE_BUSY", "SQLITE_LOCKED"}

\* the errors statement after statement may raise: nothing runs after the
\* first error that is thrown on
Raisable(faults) ==
    \A k \in DOMAIN faults :
        (faults[k] # NO_FAULT /\ ~isSqliteTransient(faults[k]))
        => \A j \in DOMAIN faults : j > k => faults[j] = NO_FAULT

\* the retrieval boost loop: touchChunk on every returned chunk, where
\* faults[k] is what touchChunk.run raises for the k-th of them.  A
\* transient error is swallowed (`continue`), any other is thrown on: the
\* loop ends there, with the boosts before it written.
RECURSIVE BoostAll(_, _, _, _)
BoostAll(d, results, faults, at) ==
    IF results = <<>> THEN [db |-> d, err |-> NO_FAULT]
    ELSE IF Head(faults) = NO_FAULT
    THEN BoostAll(touchChunk(d, Head(results).id,
                             retrievalBoost(Head(results).running_intensity),
                             at),
                  Tail(results), Tail(faults), at)
    ELSE IF isSqliteTransient(Head(faults))
    THEN BoostAll(d, Tail(results), Tail(faults), at)
    ELSE [db |-> d, err |-> Head(faults)]

\* the active chunks recall loads: of one kind, or of both
RecallRows(d, agent, kind) ==
    IF kind # ""
    THEN getActiveChunksByAgent(d, agent, kind)
    ELSE getAllActiveChunksByAgent(d, agent)

\* embed() settled: load, score, filter, sort, take `limit`, boost, return
RecallEmbedReturn(p, outcome, aged, codes) ==
    LET rec == Aborted(procs[p], outcome)
        o == CallOutcome(outcome)
    IN  /\ MayStep(p)
        /\ rec.op = "recall" /\ rec.pc = "embed"
        /\ IF o # "ok"
           THEN /\ aged = {}
                /\ procs' = [procs EXCEPT ![p] = Rejected(rec, o)]
                /\ UNCHANGED db
           ELSE /\ aged \subseteq RecallRows(db, rec.agent, rec.kind)
                /\ \E rows \in OrderedRows(db,
                                   RecallRows(db, rec.agent, rec.kind),
                                   DEFAULT_MAX_SEARCH_CHUNKS) :
                      LET top == TopResults(rows, embed(rec.text), aged,
                                            rec.limit)
                      IN  \E faults \in [DOMAIN top ->
                                               codes \cup {NO_FAULT}] :
                             LET boost == BoostAll(db, top, faults, rec.now)
                                 call == [rec EXCEPT !.aged = aged,
                                                     !.faults = faults]
                             IN  /\ Raisable(faults)
                                 /\ db' = boost.db
                                 /\ procs' = [procs EXCEPT ![p] =
                                       IF boost.err = NO_FAULT
                                       THEN Returned(call,
                                              [k \in DOMAIN top |->
                                                  top[k].id])
                                       ELSE Rejected(call, boost.err)]
        /\ UNCHANGED <<tx, nextId, clock, opsLeft>>

(***************************************************************************)
(* forget-memory.ts                                                        *)
(***************************************************************************)
\* execute() up to the await: suspends in embed(description)
ForgetStart(p, agent, description) ==
    /\ MayStep(p)
    /\ FreeSlot(p)
    /\ opsLeft > 0
    /\ opsLeft' = opsLeft - 1
    /\ procs' = [procs EXCEPT ![p] =
                    [IdleProc EXCEPT !.op = "forget", !.pc = "embed",
                                     !.agent = agent, !.text = description]]
    /\ UNCHANGED <<db, tx, nextId, clock>>

\* "Find matching chunks above threshold", in row order
Matches(rows, queryEmbedding) ==
    SelectSeq(rows,
              LAMBDA chunk :
                 ~RLt(Sim(queryEmbedding, chunk), DEFAULT_FORGET_THRESHOLD))

\* embed() settled: scan the active chunks of the agent; no match returns
\* { deleted: 0 }, otherwise deleteMatches(matches) begins its transaction
ForgetEmbedReturn(p, outcome) ==
    LET rec == Aborted(procs[p], outcome)
        o == CallOutcome(outcome)
    IN  /\ MayStep(p)
        /\ rec.op = "forget" /\ rec.pc = "embed"
        /\ IF o # "ok"
           THEN /\ procs' = [procs EXCEPT ![p] = Rejected(rec, o)]
                /\ UNCHANGED tx
           ELSE \E rows \in OrderedRows(db,
                               getAllActiveChunksByAgent(db, rec.agent),
                               DEFAULT_MAX_SEARCH_CHUNKS) :
                   LET matches == Matches(rows, embed(rec.text))
                   IN  IF matches = <<>>
                       THEN /\ procs' = [procs EXCEPT ![p] = Returned(rec, <<>>)]
                            /\ UNCHANGED tx
                       ELSE /\ procs' = [procs EXCEPT ![p] =
                                   [rec EXCEPT !.pc = "forget_tx",
                                               !.matches = matches]]
                            /\ tx' = TxBegin(p, db)
        /\ UNCHANGED <<db, nextId, clock, opsLeft>>

\* the rows whose superseded_by the scoped clear resets for match `chunk`
Predecessors(d, chunk, agent) ==
    {i \in Rows(d) : /\ d[i].superseded_by = chunk.id
                     /\ d[i].agent_id = agent
                     /\ d[i].scope = chunk.scope}

\* one turn of the loop in deleteMatches:
\*   clearSupersededByScoped.run(chunk.id, agentId, chunk.scope)
\*   deleteChunk.run(chunk.id)
\* and, after the last match, COMMIT and the result
ForgetDelete(p) ==
    LET rec == procs[p]
        chunk == Head(rec.matches)
        cleared == clearSupersededByScoped(db, chunk.id, rec.agent, chunk.scope)
        next == [rec EXCEPT !.matches = Tail(rec.matches),
                            !.result = Append(rec.result, chunk.id),
                            !.resurrected =
                                @ \cup Predecessors(db, chunk, rec.agent)]
    IN  /\ MayStep(p)
        /\ rec.op = "forget" /\ rec.pc = "forget_tx"
        /\ db' = deleteChunkStmt(cleared, chunk.id)
        /\ IF Tail(rec.matches) = <<>>
           THEN /\ tx' = NoTx
                /\ procs' = [procs EXCEPT ![p] = Returned(next, next.result)]
           ELSE /\ tx' = tx
                /\ procs' = [procs EXCEPT ![p] = next]
        /\ UNCHANGED <<nextId, clock, opsLeft>>

\* deleteMatches without the transaction around its loop
ForgetFail_noRollback(p, code) ==
    LET rec == [procs[p] EXCEPT !.faults = <<code>>]
    IN  /\ MayStep(p)
        /\ rec.op = "forget" /\ rec.pc = "forget_tx"
        /\ db' = db
        /\ tx' = NoTx
        /\ procs' = [procs EXCEPT ![p] =
                       Rejected([rec EXCEPT !.resurrected = {}], code)]
        /\ UNCHANGED <<nextId, clock, opsLeft>>

\* a statement of deleteMatches throws: ROLLBACK, the error is thrown
ForgetFail(p, code) ==
    LET rec == [procs[p] EXCEPT !.faults = <<code>>]
    IN  /\ MayStep(p)
        /\ rec.op = "forget" /\ rec.pc = "forget_tx"
        /\ db' = TxRollback(tx.snap, db)
        /\ tx' = NoTx
        /\ procs' = [procs EXCEPT ![p] =
                       Rejected([rec EXCEPT !.resurrected = {}], code)]
        /\ UNCHANGED <<nextId, clock, opsLeft>>

(***************************************************************************)
(* chunk-mutations.ts                                                      *)
(***************************************************************************)
\* updateChunk with the transaction begun before the await
UpdateStart_tx(p, chunkId, newContent) ==
    LET rec == [IdleProc EXCEPT !.op = "update", !.best = chunkId,
                                !.text = newContent, !.now = clock]
    IN  /\ MayStep(p)
        /\ FreeSlot(p)
        /\ opsLeft > 0
        /\ opsLeft' = opsLeft - 1
        /\ chunkId \in Rows(db)
        /\ procs' = [procs EXCEPT ![p] =
                       [rec EXCEPT !.pc = "embed",
                                   !.agent = db[chunkId].agent_id,
                                   !.kind = db[chunkId].kind]]
        /\ clock' = clock + 1
        /\ tx' = TxBegin(p, db)
        /\ UNCHANGED <<db, nextId>>

\* updateChunk up to the await: getChunkById, "Chunk not found", the clock,
\* then suspended in embed(newContent)
UpdateStart(p, chunkId, newContent) ==
    LET rec == [IdleProc EXCEPT !.op = "update", !.best = chunkId,
                                !.text = newContent, !.now = clock]
    IN  /\ MayStep(p)
        /\ FreeSlot(p)
        /\ opsLeft > 0
        /\ opsLeft' = opsLeft - 1
        /\ IF chunkId \in Rows(db)
           THEN /\ procs' = [procs EXCEPT ![p] =
                               [rec EXCEPT !.pc = "embed",
                                           !.agent = db[chunkId].agent_id,
                                           !.kind = db[chunkId].kind]]
                /\ clock' = clock + 1
           ELSE /\ procs' = [procs EXCEPT ![p] = Rejected(rec, "notfound")]
                /\ clock' = clock
        /\ UNCHANGED <<db, tx, nextId>>

\* UPDATE chunks SET content, content_hash, created_at, embedding,
\*   last_accessed_at WHERE id = @id
updateChunkStmt(d, id, content, hash, embedding, at) ==
    [i \in Rows(d) |->
        IF i = id
        THEN [d[i] EXCEPT !.content = content, !.content_hash = hash,
                          !.created_at = at, !.embedding = embedding,
                          !.last_accessed_at = at]
        ELSE d[i]]

\* an update that hashes the content of every chunk
updatedHash_always(kind, content) == contentHash(content)

\* existing.kind === "memory" ? contentHash(newContent) : null
updatedHash(kind, content) ==
    IF kind = "memory" THEN contentHash(content) ELSE NO_HASH

\* an update that takes it that a row was changed
Changes_one(d, id) == 1

\* result.changes of UPDATE chunks ... WHERE id = @id
Changes(d, id) == Cardinality({i \in Rows(d) : i = id})

\* embed() settled (updateChunk passes no abort signal to it): the
\* transaction of runUpdate.  The UPDATE throws on the
\* dedup index, "Chunk not found" is thrown when it changed no row and
\* "Chunk disappeared during update" when the row cannot be read back;
\* each way the transaction rolls back.
UpdateEmbedReturn(p, outcome) ==
    LET rec == Aborted(procs[p], outcome)
        o == CallOutcome(outcome)
        id == rec.best
        hash == updatedHash(rec.kind, rec.text)
        updated == updateChunkStmt(db, id, rec.text, hash, embed(rec.text),
                                   rec.now)
        others == [i \in Rows(db) \ {id} |-> db[i]]
    IN  /\ MayStep(p)
        /\ rec.op = "update" /\ rec.pc = "embed"
        /\ IF o # "ok"
           THEN /\ procs' = [procs EXCEPT ![p] = Rejected(rec, o)]
                /\ UNCHANGED db
           ELSE IF id \in Rows(db) /\ UniqueViolation(others, updated[id])
           THEN /\ procs' = [procs EXCEPT ![p] = Rejected(rec, "constraint")]
                /\ db' = TxRollback(db, updated)
           ELSE IF Changes(db, id) = 0
           THEN /\ procs' = [procs EXCEPT ![p] = Rejected(rec, "notfound")]
                /\ db' = TxRollback(db, updated)
           ELSE IF id \notin Rows(updated)
           THEN /\ procs' = [procs EXCEPT ![p] = Rejected(rec, "disappeared")]
                /\ db' = TxRollback(db, updated)
           ELSE /\ procs' = [procs EXCEPT ![p] = Returned(rec, <<id>>)]
                /\ db' = updated
        /\ UNCHANGED <<tx, nextId, clock, opsLeft>>

\* deleteChunk without its second statement
clearSupersededBy_none(d, id) == d

\* UPDATE chunks SET superseded_by = NULL WHERE superseded_by = ?
clearSupersededBy(d, id) ==
    [i \in Rows(d) |->
        IF d[i].superseded_by = id
        THEN [d[i] EXCEPT !.superseded_by = NULL]
        ELSE d[i]]

\* deleteChunk: one synchronous transaction: DELETE the row; if a row went,
\* UPDATE chunks SET superseded_by = NULL WHERE superseded_by = ?
DeleteChunk(chunkId) ==
    /\ tx.owner = 0
    /\ opsLeft > 0
    /\ opsLeft' = opsLeft - 1
    /\ db' = IF chunkId \in Rows(db)
             THEN clearSupersededBy(deleteChunkStmt(db, chunkId), chunkId)
             ELSE db
    /\ UNCHANGED <<procs, tx, nextId, clock, blocks>>

(***************************************************************************)
(* The memory-block tools.  They await nothing: a call is one step.  The   *)
(* value of a block is text; the model keeps a text as the sequence of its *)
(* characters.                                                             *)
(***************************************************************************)
\* SELECT * FROM memory_blocks WHERE agent_id = ? AND scope = ? AND key = ?
getBlockByKeyAndScope(b, agent, scope, key) ==
    IF <<agent, scope, key>> \in DOMAIN b THEN <<b[<<agent, scope, key>>]>>
    ELSE <<>>

\* SELECT * FROM memory_blocks WHERE agent_id = ? AND scope = '' AND key = ?
getBlockByKey(b, agent, key) ==
    getBlockByKeyAndScope(b, agent, GLOBAL_SCOPE, key)

\* INSERT INTO memory_blocks ... ON CONFLICT(agent_id, scope, key)
\*   DO UPDATE SET value = @value, updated_at = @updated_at
upsertBlock(b, agent, scope, key, value, at) ==
    [i \in DOMAIN b \cup {<<agent, scope, key>>} |->
        IF i = <<agent, scope, key>>
        THEN [value |-> value, updated_at |-> at]
        ELSE b[i]]

\* `text` stands in `value` at position i (the empty text stands at every
\* position, the one after the last character included)
MatchAt(value, text, i) ==
    /\ i + Len(text) - 1 <= Len(value)
    /\ SubSeq(value, i, i + Len(text) - 1) = text

\* value.includes(oldText)
Includes(value, oldText) ==
    \E i \in 1 .. (Len(value) + 1) : MatchAt(value, oldText, i)

\* value.replaceAll(oldText, newText) from position i on: the matches are
\* taken left to right without overlap, and the search moves on by
\* max(1, oldText.length), so that the empty text matches before every
\* character and after the last
RECURSIVE ReplaceFrom(_, _, _, _)
ReplaceFrom(value, oldText, newText, i) ==
    IF i > Len(value)
    THEN IF oldText = <<>> THEN newText ELSE <<>>
    ELSE IF ~MatchAt(value, oldText, i)
    THEN <<value[i]>> \o ReplaceFrom(value, oldText, newText, i + 1)
    ELSE IF oldText = <<>>
    THEN newText \o <<value[i]>>
            \o ReplaceFrom(value, oldText, newText, i + 1)
    ELSE newText \o ReplaceFrom(value, oldText, newText, i + Len(oldText))

ReplaceAll(value, oldText, newText) == ReplaceFrom(value, oldText, newText, 1)

\* value.split(oldText) from position i on: the number of pieces
RECURSIVE SplitFrom(_, _, _)
SplitFrom(value, oldText, i) ==
    IF oldText = <<>> THEN Len(value)
    ELSE IF i > Len(value) THEN 1
    ELSE IF MatchAt(value, oldText, i)
    THEN 1 + SplitFrom(value, oldText, i + Len(oldText))
    ELSE SplitFrom(value, oldText, i + 1)

\* value.split(oldText).length - 1
Occurrences(value, oldText) == SplitFrom(value, oldText, 1) - 1

\* append_memory_block: read the block of the scope, append or create
AppendBlock(p, agent, scope, key, content) ==
    LET sc == normalizeScope(scope)
        existing == getBlockByKeyAndScope(blocks, agent, sc, key)
        newValue == IF existing # <<>>
                    THEN existing[1].value \o <<"\n">> \o content
                    ELSE content
        rec == [IdleProc EXCEPT !.op = "append_block", !.agent = agent,
                                !.scope = sc, !.key = key, !.edit = content,
                                !.now = clock]
    IN  /\ MayStep(p)
        /\ FreeSlot(p)
        /\ opsLeft > 0
        /\ opsLeft' = opsLeft - 1
        /\ clock' = clock + 1
        /\ blocks' = upsertBlock(blocks, agent, sc, key, newValue, clock)
        /\ procs' = [procs EXCEPT ![p] =
                       Returned([rec EXCEPT !.status =
                                    IF existing # <<>> THEN "appended to"
                                    ELSE "created"],
                                <<>>)]
        /\ UNCHANGED <<db, tx, nextId>>

\* replace_memory_block: block_not_found, text_not_found, or every
\* occurrence replaced
ReplaceBlock(p, agent, key, oldText, newText) ==
    LET row == getBlockByKey(blocks, agent, key)
        rec == [IdleProc EXCEPT !.op = "replace_block", !.agent = agent,
                                !.scope = GLOBAL_SCOPE, !.key = key,
                                !.edit = oldText]
    IN  /\ MayStep(p)
        /\ FreeSlot(p)
        /\ opsLeft > 0
        /\ opsLeft' = opsLeft - 1
        /\ IF row = <<>>
           THEN /\ procs' = [procs EXCEPT ![p] =
                               Returned([rec EXCEPT !.status =
                                            "block_not_found"], <<>>)]
                /\ UNCHANGED <<blocks, clock>>
           ELSE IF ~Includes(row[1].value, oldText)
           THEN /\ procs' = [procs EXCEPT ![p] =
                               Returned([rec EXCEPT !.status =
                                            "text_not_found"], <<>>)]
                /\ UNCHANGED <<blocks, clock>>
           ELSE /\ blocks' = upsertBlock(blocks, agent, GLOBAL_SCOPE, key,
                                         ReplaceAll(row[1].value, oldText,
                                                    newText),
                                         clock)
                /\ clock' = clock + 1
                /\ procs' = [procs EXCEPT ![p] =
                               Returned([rec EXCEPT
                                           !.status = "updated",
                                           !.limit = Occurrences(row[1].value,
                                                                 oldText)],
                                        <<>>)]
        /\ UNCHANGED <<db, tx, nextId>>

\* recall_memory_block: the value of the block, or null
RecallBlock(p, agent, key) ==
    LET row == getBlockByKey(blocks, agent, key)
        rec == [IdleProc EXCEPT !.op = "recall_block", !.agent = agent,
                                !.scope = GLOBAL_SCOPE, !.key = key]
    IN  /\ MayStep(p)
        /\ FreeSlot(p)
        /\ opsLeft > 0
        /\ opsLeft' = opsLeft - 1
        /\ procs' = [procs EXCEPT ![p] =
                       Returned([rec EXCEPT
                                   !.status = IF row = <<>> THEN "null"
                                              ELSE "value",
                                   !.value = IF row = <<>> THEN <<>>
                                             ELSE row[1].value],
                                <<>>)]
        /\ UNCHANGED <<db, tx, nextId, clock, blocks>>

(***************************************************************************)
(* Specifications.                                                         *)
(***************************************************************************)
Agents == {"A"}
Scopes == {GLOBAL_SCOPE}
FactTexts == {"a", "c"}
QueryTexts == {"a", "d"}
Descriptions == {"a", "e"}
Intensities == {<<1, 2>>}
Kinds == {"", "fact"}
Limits == {1, DEFAULT_LIMIT}
BlockKeys == {"k"}
BlockTexts == {<<"x">>, <<"y">>}

Fact(t, i) == [fact |-> t, intensity |-> i]

\* what the extractor may hand back: up to MaxFacts facts
Batches ==
    UNION {[1 .. n -> {Fact(t, i) : t \in FactTexts, i \in Intensities}] :
              n \in 0 .. MaxFacts}

Init ==
    /\ db = EmptyDb
    /\ procs = [p \in Procs |-> IdleProc]
    /\ tx = NoTx
    /\ nextId = 1
    /\ clock = 1
    /\ opsLeft = MaxOps
    /\ blocks = EmptyBlocks
    /\ meta = NO_MODEL
    /\ opened = NotOpened
    /\ dump = NoDump
    /\ restored = NotRestored

\* a call of one of the chunk tools, bound to one of `agents`, arrives and
\* runs up to its first await
ChunkStart(p, agents, scopes) ==
    /\ \/ \E a \in agents, s \in scopes : RememberStart(p, a, s)
       \/ \E a \in agents, t \in FactTexts : StoreStart(p, a, t)
       \/ \E a \in agents, t \in QueryTexts, k \in Kinds, l \in Limits :
             RecallStart(p, a, t, k, l)
       \/ \E a \in agents, t \in Descriptions : ForgetStart(p, a, t)
    /\ UNCHANGED blocks

\* a call of one of the memory-block tools arrives and runs to its end
BlockStart(p, agents, scopes) ==
    \/ \E a \in agents, s \in scopes, k \in BlockKeys, t \in BlockTexts :
          AppendBlock(p, a, s, k, t)
    \/ \E a \in agents, k \in BlockKeys, o \in BlockTexts, n \in BlockTexts :
          ReplaceBlock(p, a, k, o, n)
    \/ \E a \in agents, k \in BlockKeys : RecallBlock(p, a, k)

\* a call arrives and runs up to its first await
Start(p) ==
    \/ ChunkStart(p, Agents, Scopes)
    \/ BlockStart(p, Agents, Scopes)
    \/ /\ \E id \in 1 .. MaxChunks, t \in FactTexts : UpdateStart(p, id, t)
       /\ UNCHANGED blocks

\* an external call of the call in slot p settles, and the call runs on to
\* its next await or to its end; `codes` are the errors the boost writes of
\* recall_memories may raise
Settle(p, codes) ==
    /\ \/ \E f \in Batches, o \in Outcomes : ExtractReturn(p, f, o)
       \/ \E o \in Outcomes : EmbedReturn(p, o)
       \/ \E r \in Responses, o \in Outcomes : ClassifyReturn(p, r, o)
       \/ SupersedeMark(p)
       \/ \E c \in StorageCodes : SupersedeFail(p, c)
       \/ \E o \in Outcomes : StoreEmbedReturn(p, o)
       \/ \E o \in Outcomes, aged \in SUBSET (1 .. MaxChunks) :
             RecallEmbedReturn(p, o, aged, codes)
       \/ \E o \in Outcomes : ForgetEmbedReturn(p, o)
       \/ ForgetDelete(p)
       \/ \E c \in StorageCodes : ForgetFail(p, c)
       \/ \E o \in Outcomes \ {"cancelled"} : UpdateEmbedReturn(p, o)
    /\ UNCHANGED blocks

\* the same, with every boost write of recall_memories going through
Resume(p) == Settle(p, {})

Next ==
    /\ \/ \E p \in Procs : (LowestFree(p) /\ Start(p)) \/ Resume(p)
       \/ \E id \in 1 .. MaxChunks : DeleteChunk(id)
    /\ UNCHANGED <<meta, opened, dump, restored>>

\* Any calls, overlapping at their awaits.
Spec == Init /\ [][Next]_vars

\* One call at a time, and more of them.
InitSeq ==
    /\ db = EmptyDb
    /\ procs = [p \in Procs |-> IdleProc]
    /\ tx = NoTx
    /\ nextId = 1
    /\ clock = 1
    /\ opsLeft = MaxSeqOps
    /\ blocks = EmptyBlocks
    /\ meta = NO_MODEL
    /\ opened = NotOpened
    /\ dump = NoDump
    /\ restored = NotRestored

NextSeq ==
    /\ \/ Start(1)
       \/ Resume(1)
       \/ \E id \in 1 .. MaxChunks : FreeSlot(1) /\ DeleteChunk(id)
    /\ UNCHANGED <<meta, opened, dump, restored>>

SpecSeq == InitSeq /\ [][NextSeq]_vars

\* Every slot takes one store_memory call.
InitStore ==
    /\ db = EmptyDb
    /\ procs = [p \in Procs |-> IdleProc]
    /\ tx = NoTx
    /\ nextId = 1
    /\ clock = 1
    /\ opsLeft = NumProcs
    /\ blocks = EmptyBlocks
    /\ meta = NO_MODEL
    /\ opened = NotOpened
    /\ dump = NoDump
    /\ restored = NotRestored

NextStore ==
    /\ /\ \E p \in Procs :
             \/ \E a \in Agents, t \in FactTexts :
                   procs[p].pc = "idle" /\ StoreStart(p, a, t)
             \/ \E o \in Outcomes : StoreEmbedReturn(p, o)
       /\ UNCHANGED blocks
    /\ UNCHANGED <<meta, opened, dump, restored>>

SpecStore == InitStore /\ [][NextStore]_vars

(***************************************************************************)
(* forget_memory against a table as found.  The table is built with the    *)
(* prepared statements the library hands out, insertChunk and              *)
(* supersedeChunk, which take any agent_id and any pair of ids: a row may   *)
(* point at a row of another agent.                                        *)
(***************************************************************************)
AllAgents == {"A", "B"}

\* insertChunk.run({...}) of a fact chunk with the defaults of a new chunk
SeedChunk(id, agent, text) ==
    [id |-> id, agent_id |-> agent, scope |-> GLOBAL_SCOPE,
     content |-> text, content_hash |-> NO_HASH,
     embedding |-> embed(text), kind |-> "fact",
     running_intensity |-> DEFAULT_INTENSITY,
     encounter_count |-> 1, access_count |-> 0,
     last_accessed_at |-> 0, created_at |-> 0,
     superseded_by |-> NULL]

\* supersedeChunk.run(link[i], i) for every row i with link[i] # NULL
RECURSIVE SeedLinks(_, _, _)
SeedLinks(d, link, i) ==
    IF i > MaxSeed THEN d
    ELSE SeedLinks(IF link[i] = NULL THEN d
                   ELSE supersedeChunk(d, link[i], i),
                   link, i + 1)

\* MaxSeed rows, each of any agent and text, each superseded by nothing or
\* by a later row
SeedTables ==
    {SeedLinks([i \in 1 .. MaxSeed |-> SeedChunk(i, agent[i], text[i])],
               link, 1) :
        agent \in [1 .. MaxSeed -> AllAgents],
        text \in [1 .. MaxSeed -> FactTexts],
        link \in {l \in [1 .. MaxSeed -> 0 .. MaxSeed] :
                     \A i \in 1 .. MaxSeed : l[i] = NULL \/ l[i] > i}}

InitForget ==
    /\ db \in SeedTables
    /\ procs = [p \in Procs |-> IdleProc]
    /\ tx = NoTx
    /\ nextId = MaxSeed + 1
    /\ clock = 1
    /\ opsLeft = MaxForgetOps
    /\ blocks = EmptyBlocks
    /\ meta = NO_MODEL
    /\ opened = NotOpened
    /\ dump = NoDump
    /\ restored = NotRestored

NextForget ==
    /\ /\ \E p \in Procs :
             \/ \E a \in AllAgents, t \in Descriptions :
                   LowestFree(p) /\ ForgetStart(p, a, t)
             \/ \E o \in Outcomes : ForgetEmbedReturn(p, o)
             \/ ForgetDelete(p)
             \/ \E c \in StorageCodes : ForgetFail(p, c)
       /\ UNCHANGED blocks
    /\ UNCHANGED <<meta, opened, dump, restored>>

SpecForget == InitForget /\ [][NextForget]_vars

(***************************************************************************)
(* Two agents and two scopes on one database, one call at a time.          *)
(***************************************************************************)
\* scope options as configured: blank (global) and a named scope
AllScopes == {" ", "s"}

InitIso ==
    /\ db = EmptyDb
    /\ procs = [p \in Procs |-> IdleProc]
    /\ tx = NoTx
    /\ nextId = 1
    /\ clock = 1
    /\ opsLeft = MaxIsoOps
    /\ blocks = EmptyBlocks
    /\ meta = NO_MODEL
    /\ opened = NotOpened
    /\ dump = NoDump
    /\ restored = NotRestored

NextIso ==
    /\ \/ ChunkStart(1, AllAgents, AllScopes)
       \/ BlockStart(1, AllAgents, AllScopes)
       \/ Resume(1)
    /\ UNCHANGED <<meta, opened, dump, restored>>

SpecIso == InitIso /\ [][NextIso]_vars

(***************************************************************************)
(* remember_facts alone, one call at a time, over facts whose similarity   *)
(* to one another falls below, on, between and above the two thresholds.   *)
(***************************************************************************)
MaxBandOps == 2

BandTexts == {"a", "d", "f", "g"}

BandBatches ==
    UNION {[1 .. n -> {Fact(t, i) : t \in BandTexts, i \in Intensities}] :
              n \in 0 .. MaxFacts}

InitBand ==
    /\ db = EmptyDb
    /\ procs = [p \in Procs |-> IdleProc]
    /\ tx = NoTx
    /\ nextId = 1
    /\ clock = 1
    /\ opsLeft = MaxBandOps
    /\ blocks = EmptyBlocks
    /\ meta = NO_MODEL
    /\ opened = NotOpened
    /\ dump = NoDump
    /\ restored = NotRestored

NextBand ==
    /\ /\ \/ \E a \in Agents, sc \in Scopes : RememberStart(1, a, sc)
          \/ \E f \in BandBatches, o \in Outcomes : ExtractReturn(1, f, o)
          \/ \E o \in Outcomes : EmbedReturn(1, o)
          \/ \E r \in Responses, o \in Outcomes : ClassifyReturn(1, r, o)
          \/ SupersedeMark(1)
          \/ \E c \in StorageCodes : SupersedeFail(1, c)
       /\ UNCHANGED blocks
    /\ UNCHANGED <<meta, opened, dump, restored>>

SpecBand == InitBand /\ [][NextBand]_vars

(***************************************************************************)
(* The chunk tools, one call at a time, on storage whose statements may    *)
(* raise an error in the retrieval boost of recall_memories as they may in *)
(* the transactions of remember_facts and forget_memory.                   *)
(***************************************************************************)
MaxFaultOps == 2

InitFault ==
    /\ db = EmptyDb
    /\ procs = [p \in Procs |-> IdleProc]
    /\ tx = NoTx
    /\ nextId = 1
    /\ clock = 1
    /\ opsLeft = MaxFaultOps
    /\ blocks = EmptyBlocks
    /\ meta = NO_MODEL
    /\ opened = NotOpened
    /\ dump = NoDump
    /\ restored = NotRestored

NextFault ==
    /\ \/ ChunkStart(1, Agents, Scopes)
       \/ Settle(1, StorageCodes)
    /\ UNCHANGED <<meta, opened, dump, restored>>

SpecFault == InitFault /\ [][NextFault]_vars

(***************************************************************************)
(* schema.ts: verifyEmbeddingModel, called by the host when it opens the   *)
(* database, and store_memory calls on the database it opened.             *)
(***************************************************************************)
Models == {"text-embedding-3-small", "text-embedding-3-large"}

\* a call that writes the configured model over the recorded one
Recorded_overwrite(stored, model) == model

\* the value of the row after the call: inserted when there was none
Recorded(stored, model) == IF stored = NO_MODEL THEN model ELSE stored

\* row.value !== model
Mismatch(stored, model) == stored # NO_MODEL /\ stored # model

verifyEmbeddingModel(model) ==
    /\ meta' = Recorded(meta, model)
    /\ opened' = [model |-> model,
                  err |-> IF Mismatch(meta, model)
                          THEN "Embedding model mismatch" ELSE ""]
    /\ UNCHANGED <<db, procs, tx, nextId, clock, opsLeft, blocks, dump,
                   restored>>

InitPin ==
    /\ db = EmptyDb
    /\ procs = [p \in Procs |-> IdleProc]
    /\ tx = NoTx
    /\ nextId = 1
    /\ clock = 1
    /\ opsLeft = NumProcs
    /\ blocks = EmptyBlocks
    /\ meta = NO_MODEL
    /\ opened = NotOpened
    /\ dump = NoDump
    /\ restored = NotRestored

NextPin ==
    \/ \E model \in Models : verifyEmbeddingModel(model)
    \/ /\ \E p \in Procs :
             \/ \E a \in Agents, t \in FactTexts :
                   procs[p].pc = "idle" /\ StoreStart(p, a, t)
             \/ \E o \in Outcomes : StoreEmbedReturn(p, o)
       /\ UNCHANGED <<blocks, meta, opened, dump, restored>>

SpecPin == InitPin /\ [][NextPin]_vars

(***************************************************************************)
(* remember_facts, store_memory and recall_memories, one call at a time,   *)
(* with an LLM whose intensity readings may lie outside [0, 1].            *)
(***************************************************************************)
MaxClampOps == 2

RawIntensities == {<<-1, 1>>, <<1, 2>>, <<3, 1>>}

RawBatches ==
    UNION {[1 .. n -> {Fact(t, i) : t \in FactTexts, i \in RawIntensities}] :
              n \in 0 .. MaxFacts}

InitClamp ==
    /\ db = EmptyDb
    /\ procs = [p \in Procs |-> IdleProc]
    /\ tx = NoTx
    /\ nextId = 1
    /\ clock = 1
    /\ opsLeft = MaxClampOps
    /\ blocks = EmptyBlocks
    /\ meta = NO_MODEL
    /\ opened = NotOpened
    /\ dump = NoDump
    /\ restored = NotRestored

NextClamp ==
    /\ \/ \E a \in Agents, sc \in Scopes : RememberStart(1, a, sc)
       \/ \E f \in RawBatches, o \in Outcomes : ExtractReturn(1, f, o)
       \/ \E o \in Outcomes : EmbedReturn(1, o)
       \/ \E r \in Responses, o \in Outcomes : ClassifyReturn(1, r, o)
       \/ SupersedeMark(1)
       \/ \E c \in StorageCodes : SupersedeFail(1, c)
       \/ \E a \in Agents, t \in FactTexts : StoreStart(1, a, t)
       \/ \E o \in Outcomes : StoreEmbedReturn(1, o)
       \/ \E a \in Agents, t \in QueryTexts, k \in Kinds, l \in Limits :
             RecallStart(1, a, t, k, l)
       \/ \E o \in Outcomes, aged \in SUBSET (1 .. MaxChunks) :
             RecallEmbedReturn(1, o, aged, {})
    /\ UNCHANGED <<blocks, meta, opened, dump, restored>>

SpecClamp == InitClamp /\ [][NextClamp]_vars

(***************************************************************************)
(* remember_facts alone, one call at a time, with an LLM that answers the  *)
(* classification prompt with more, less or other than the word asked for. *)
(***************************************************************************)
MaxParseOps == 2

\* "duplicate", "**SUPERSEDES**", " Distinct. both", "D-U-P-L-I-C-A-T-E",
\* "", " \n", "maybe", "DUP LICATE", "the DUPLICATE", "DUPLICATES"
LooseResponses ==
    {<<"d", "u", "p", "l", "i", "c", "a", "t", "e">>,
     <<"*", "*">> \o SUPERSEDES \o <<"*", "*">>,
     <<" ", "D", "i", "s", "t", "i", "n", "c", "t", ".", " ",
       "b", "o", "t", "h">>,
     <<"D", "-", "U", "-", "P", "-", "L", "-", "I", "-", "C", "-", "A", "-",
       "T", "-", "E">>,
     <<>>,
     <<" ", "\n">>,
     <<"m", "a", "y", "b", "e">>,
     <<"D", "U", "P", " ", "L", "I", "C", "A", "T", "E">>,
     <<"t", "h", "e", " ">> \o DUPLICATE,
     DUPLICATE \o <<"S">>}

InitParse ==
    /\ db = EmptyDb
    /\ procs = [p \in Procs |-> IdleProc]
    /\ tx = NoTx
    /\ nextId = 1
    /\ clock = 1
    /\ opsLeft = MaxParseOps
    /\ blocks = EmptyBlocks
    /\ meta = NO_MODEL
    /\ opened = NotOpened
    /\ dump = NoDump
    /\ restored = NotRestored

NextParse ==
    /\ \/ \E a \in Agents, sc \in Scopes : RememberStart(1, a, sc)
       \/ \E f \in Batches, o \in Outcomes : ExtractReturn(1, f, o)
       \/ \E o \in Outcomes : EmbedReturn(1, o)
       \/ \E r \in LooseResponses, o \in Outcomes : ClassifyReturn(1, r, o)
       \/ SupersedeMark(1)
       \/ \E c \in StorageCodes : SupersedeFail(1, c)
    /\ UNCHANGED <<blocks, meta, opened, dump, restored>>

SpecParse == InitParse /\ [][NextParse]_vars

(***************************************************************************)
(* remember_facts and store_memory alone, one call at a time, through      *)
(* tools created with and without a length limit, on inputs below, at and  *)
(* above the limit.                                                        *)
(***************************************************************************)
MaxLimitOps == 2

\* params.text.length: around a configured limit and around the default
TextLengths == {1, 5, 6, MAX_TEXT_LENGTH, MAX_TEXT_LENGTH + 1}
MaxTextLengths == {Unset, {5}}

\* params.content, of 1, 3 and 4 characters
LimitContents == {"a", "abc", "abcd"}
MaxContentLengths == {Unset, {3}}

InitLimit ==
    /\ db = EmptyDb
    /\ procs = [p \in Procs |-> IdleProc]
    /\ tx = NoTx
    /\ nextId = 1
    /\ clock = 1
    /\ opsLeft = MaxLimitOps
    /\ blocks = EmptyBlocks
    /\ meta = NO_MODEL
    /\ opened = NotOpened
    /\ dump = NoDump
    /\ restored = NotRestored

NextLimit ==
    /\ \/ \E a \in Agents, sc \in Scopes, n \in TextLengths,
             m \in MaxTextLengths : RememberCall(1, a, sc, n, m)
       \/ \E f \in Batches, o \in Outcomes : ExtractReturn(1, f, o)
       \/ \E o \in Outcomes : EmbedReturn(1, o)
       \/ \E r \in Responses, o \in Outcomes : ClassifyReturn(1, r, o)
       \/ SupersedeMark(1)
       \/ \E c \in StorageCodes : SupersedeFail(1, c)
       \/ \E a \in Agents, t \in LimitContents, m \in MaxContentLengths :
             StoreCall(1, a, t, m)
       \/ \E o \in Outcomes : StoreEmbedReturn(1, o)
    /\ UNCHANGED <<blocks, meta, opened, dump, restored>>

SpecLimit == InitLimit /\ [][NextLimit]_vars

(***************************************************************************)
(* The memory-block tools alone, one call at a time, on texts of zero, one *)
(* and two characters.                                                     *)
(***************************************************************************)
MaxBlockOps == 3

\* params.content, params.oldText, params.newText: "", "x", "y", "xx"
EditTexts == {<<>>, <<"x">>, <<"y">>, <<"x", "x">>}

InitBlock ==
    /\ db = EmptyDb
    /\ procs = [p \in Procs |-> IdleProc]
    /\ tx = NoTx
    /\ nextId = 1
    /\ clock = 1
    /\ opsLeft = MaxBlockOps
    /\ blocks = EmptyBlocks
    /\ meta = NO_MODEL
    /\ opened = NotOpened
    /\ dump = NoDump
    /\ restored = NotRestored

NextBlock ==
    /\ \/ \E a \in Agents, sc \in Scopes, k \in BlockKeys, t \in EditTexts :
             AppendBlock(1, a, sc, k, t)
       \/ \E a \in Agents, k \in BlockKeys, o \in EditTexts, n \in EditTexts :
             ReplaceBlock(1, a, k, o, n)
       \/ \E a \in Agents, k \in BlockKeys : RecallBlock(1, a, k)
    /\ UNCHANGED <<meta, opened, dump, restored>>

SpecBlock == InitBlock /\ [][NextBlock]_vars

(***************************************************************************)
(* The chunk tools, updateChunk and deleteChunk for two agents in two      *)
(* scopes, the calls overlapping at their awaits.                          *)
(***************************************************************************)
MaxRefOps == 2

InitRef ==
    /\ db = EmptyDb
    /\ procs = [p \in Procs |-> IdleProc]
    /\ tx = NoTx
    /\ nextId = 1
    /\ clock = 1
    /\ opsLeft = MaxRefOps
    /\ blocks = EmptyBlocks
    /\ meta = NO_MODEL
    /\ opened = NotOpened
    /\ dump = NoDump
    /\ restored = NotRestored

NextRef ==
    /\ \/ \E p \in Procs : LowestFree(p) /\ ChunkStart(p, AllAgents, AllScopes)
       \/ \E p \in Procs, id \in 1 .. MaxChunks, t \in FactTexts :
             LowestFree(p) /\ UpdateStart(p, id, t) /\ UNCHANGED blocks
       \/ \E p \in Procs : Resume(p)
       \/ \E id \in 1 .. MaxChunks : DeleteChunk(id)
    /\ UNCHANGED <<meta, opened, dump, restored>>

SpecRef == InitRef /\ [][NextRef]_vars

(***************************************************************************)
(* updateChunk beside forget_memory and deleteChunk on a table that holds  *)
(* chunks, the calls overlapping at their awaits.                          *)
(***************************************************************************)
MaxGoneOps == 2

InitGone ==
    /\ db \in SeedTables
    /\ procs = [p \in Procs |-> IdleProc]
    /\ tx = NoTx
    /\ nextId = MaxSeed + 1
    /\ clock = 1
    /\ opsLeft = MaxGoneOps
    /\ blocks = EmptyBlocks
    /\ meta = NO_MODEL
    /\ opened = NotOpened
    /\ dump = NoDump
    /\ restored = NotRestored

NextGone ==
    /\ \/ \E p \in Procs, id \in 1 .. MaxSeed, t \in FactTexts :
             LowestFree(p) /\ UpdateStart(p, id, t)
       \/ \E p \in Procs, o \in Outcomes \ {"cancelled"} :
             UpdateEmbedReturn(p, o)
       \/ \E p \in Procs, a \in AllAgents, t \in Descriptions :
             LowestFree(p) /\ ForgetStart(p, a, t)
       \/ \E p \in Procs, o \in Outcomes : ForgetEmbedReturn(p, o)
       \/ \E p \in Procs : ForgetDelete(p)
       \/ \E p \in Procs, c \in StorageCodes : ForgetFail(p, c)
       \/ \E id \in 1 .. MaxSeed : DeleteChunk(id)
    /\ UNCHANGED <<blocks, meta, opened, dump, restored>>

SpecGone == InitGone /\ [][NextGone]_vars

(***************************************************************************)
(* cli.ts: `hippo export <agent>` writes the rows of one agent as JSON,    *)
(* `hippo import <file>` inserts them into the database it is pointed at.  *)
(* An embedding is a BLOB in the table and base64 text in the file; the    *)
(* model's blob holds two bytes for each component of its integer vector,  *)
(* low byte first, and its base64 text is the sequence of the 6-bit values *)
(* of the characters, the padding character "=" being the value past the   *)
(* last.                                                                   *)
(***************************************************************************)
Blob(embedding) ==
    [k \in 1 .. (2 * Len(embedding)) |->
        LET c == embedding[(k + 1) \div 2] % 65536
        IN  IF k % 2 = 1 THEN c % 256 ELSE c \div 256]

FromBlob(bytes) ==
    [k \in 1 .. (Len(bytes) \div 2) |->
        LET u == bytes[2 * k - 1] + 256 * bytes[2 * k]
        IN  IF u >= 32768 THEN u - 65536 ELSE u]

PAD == 63 + 1

\* Buffer.prototype.toString("base64"): three bytes make four characters,
\* a last group of one or two bytes is padded
RECURSIVE toBase64(_)
toBase64(bytes) ==
    IF bytes = <<>> THEN <<>>
    ELSE IF Len(bytes) = 1
    THEN <<bytes[1] \div 4, (bytes[1] % 4) * 16, PAD, PAD>>
    ELSE IF Len(bytes) = 2
    THEN <<bytes[1] \div 4, (bytes[1] % 4) * 16 + bytes[2] \div 16,
           (bytes[2] % 16) * 4, PAD>>
    ELSE <<bytes[1] \div 4, (bytes[1] % 4) * 16 + bytes[2] \div 16,
           (bytes[2] % 16) * 4 + bytes[3] \div 64, bytes[3] % 64>>
            \o toBase64(SubSeq(bytes, 4, Len(bytes)))

\* Buffer.from(text, "base64")
RECURSIVE fromBase64(_)
fromBase64(chars) ==
    IF Len(chars) < 4 THEN <<>>
    ELSE LET b1 == chars[1] * 4 + chars[2] \div 16
             b2 == (chars[2] % 16) * 16 + chars[3] \div 4
             b3 == (chars[3] % 4) * 64 + chars[4]
         IN  IF chars[3] = PAD THEN <<b1>>
             ELSE IF chars[4] = PAD THEN <<b1, b2>>
             ELSE <<b1, b2, b3>> \o fromBase64(SubSeq(chars, 5, Len(chars)))

\* chunks.map((c) => ({...})): the columns the file keeps of a chunk
ExportedChunk(c) ==
    [access_count |-> c.access_count, content |-> c.content,
     content_hash |-> c.content_hash, created_at |-> c.created_at,
     embedding_base64 |-> toBase64(Blob(c.embedding)),
     encounter_count |-> c.encounter_count, id |-> c.id, kind |-> c.kind,
     last_accessed_at |-> c.last_accessed_at,
     running_intensity |-> c.running_intensity,
     superseded_by |-> c.superseded_by]

\* blocks.map((b) => ({...})): the columns the file keeps of a block
ExportedBlock(i, b) ==
    [key |-> i[3], updatedAt |-> b.updated_at, value |-> b.value]

\* the orders a SELECT without ORDER BY may return the rows `ids` in
AnyOrder(ids) ==
    {s \in [1 .. Cardinality(ids) -> ids] :
        \A i, j \in DOMAIN s : i # j => s[i] # s[j]}

\* SELECT * FROM chunks WHERE agent_id = ?
\* SELECT * FROM memory_blocks WHERE agent_id = ?
ExportCmd(agent) ==
    /\ \E cs \in AnyOrder({i \in Rows(db) : db[i].agent_id = agent}),
          bs \in AnyOrder({i \in DOMAIN blocks : i[1] = agent}) :
          dump' = [agentId |-> agent,
                   chunks |-> [k \in DOMAIN cs |-> ExportedChunk(db[cs[k]])],
                   blocks |-> [k \in DOMAIN bs |->
                                  ExportedBlock(bs[k], blocks[bs[k]])]]
    /\ UNCHANGED <<db, procs, tx, nextId, clock, opsLeft, blocks, meta,
                   opened, restored>>

\* the row insertChunk.run({...}) of the import binds: scope is not among
\* the columns and takes its default ''
ImportedChunk(agentId, c) ==
    [id |-> c.id, agent_id |-> agentId, scope |-> GLOBAL_SCOPE,
     content |-> c.content, content_hash |-> c.content_hash,
     embedding |-> FromBlob(fromBase64(c.embedding_base64)),
     kind |-> c.kind, running_intensity |-> c.running_intensity,
     encounter_count |-> c.encounter_count,
     access_count |-> c.access_count,
     last_accessed_at |-> c.last_accessed_at, created_at |-> c.created_at,
     superseded_by |-> c.superseded_by]

\* INSERT OR IGNORE INTO chunks (...): a row whose id is taken, or that the
\* dedup index refuses, is skipped
insertOrIgnoreChunk(d, row) ==
    IF row.id \in Rows(d) \/ UniqueViolation(d, row) THEN d
    ELSE d @@ (row.id :> row)

\* INSERT OR IGNORE INTO memory_blocks (agent_id, key, value, updated_at)
insertOrIgnoreBlock(b, agentId, blk) ==
    IF <<agentId, GLOBAL_SCOPE, blk.key>> \in DOMAIN b THEN b
    ELSE b @@ (<<agentId, GLOBAL_SCOPE, blk.key>> :>
                  [value |-> blk.value, updated_at |-> blk.updatedAt])

\* for (const c of data.chunks) insertChunk.run({...})
RECURSIVE ImportChunks(_, _, _)
ImportChunks(d, agentId, chunks) ==
    IF chunks = <<>> THEN d
    ELSE ImportChunks(insertOrIgnoreChunk(d,
                                          ImportedChunk(agentId, Head(chunks))),
                      agentId, Tail(chunks))

\* for (const b of data.blocks) upsertBlock.run({...})
RECURSIVE ImportBlocks(_, _, _)
ImportBlocks(b, agentId, blks) ==
    IF blks = <<>> THEN b
    ELSE ImportBlocks(insertOrIgnoreBlock(b, agentId, Head(blks)),
                      agentId, Tail(blks))

\* `hippo import` of the exported file into a database that has no rows
ImportCmd ==
    LET d == ImportChunks(EmptyDb, dump.agentId, dump.chunks)
        b == ImportBlocks(EmptyBlocks, dump.agentId, dump.blocks)
    IN  /\ dump # NoDump
        /\ ~restored.done
        /\ restored' =
              [db |-> d, blocks |-> b, done |-> TRUE,
               chunksSkipped |-> Len(dump.chunks) - Cardinality(Rows(d)),
               blocksSkipped |-> Len(dump.blocks) - Cardinality(DOMAIN b)]
        /\ UNCHANGED <<db, procs, tx, nextId, clock, opsLeft, blocks, meta,
                       opened, dump>>

(***************************************************************************)
(* Calls of two agents in two scopes, one at a time; then one agent is     *)
(* exported and the file imported into a fresh database.                   *)
(***************************************************************************)
MaxExportOps == 2

InitExport ==
    /\ db = EmptyDb
    /\ procs = [p \in Procs |-> IdleProc]
    /\ tx = NoTx
    /\ nextId = 1
    /\ clock = 1
    /\ opsLeft = MaxExportOps
    /\ blocks = EmptyBlocks
    /\ meta = NO_MODEL
    /\ opened = NotOpened
    /\ dump = NoDump
    /\ restored = NotRestored

NextExport ==
    /\ \/ /\ dump = NoDump
          /\ \/ ChunkStart(1, AllAgents, AllScopes)
             \/ BlockStart(1, AllAgents, AllScopes)
             \/ Resume(1)
          /\ UNCHANGED <<dump, restored>>
       \/ /\ dump = NoDump
          /\ FreeSlot(1)
          /\ \E a \in AllAgents : ExportCmd(a)
       \/ ImportCmd
    /\ UNCHANGED <<meta, opened>>

SpecExport == InitExport /\ [][NextExport]_vars

(***************************************************************************)
(* Properties.                                                             *)
(***************************************************************************)
Range(seq) == {seq[k] : k \in DOMAIN seq}

\* no row points at a row that is not there
NoDangling(d) ==
    \A i \in Rows(d) : d[i].superseded_by # NULL => d[i].superseded_by \in Rows(d)

\* slot p's remember_facts call ends in this step with an error
RememberFails(p) ==
    /\ procs[p].op = "remember"
    /\ procs[p].pc \in {"extract", "embed", "classify", "sup_mark"}
    /\ procs'[p].pc = "failed"

\* what the action `act` of the log wrote is in table d
EffectIn(act, d) ==
    /\ act.id \in Rows(d)
    /\ act.action = "superseded" => /\ act.old \in Rows(d)
                                    /\ d[act.old].superseded_by = act.id
    /\ act.action = "reinforced" => d[act.id].encounter_count >= 2

\* C1: the SUPERSEDES branch of remember_facts is atomic.  When its
\* transaction ends, either the new row is there and the old row (if it
\* still exists) points at it, or the table is what it was before the new
\* row went in; a step of another call never sees the transaction open,
\* and with none open no superseded_by points at a missing row.
C1_SupersedeAtomic ==
    /\ [][\A p \in Procs :
            /\ (procs[p].op = "remember" /\ procs[p].pc = "sup_mark"
                /\ procs'[p].pc # "sup_mark")
               => /\ tx.owner = p /\ tx'.owner = 0
                  /\ \/ /\ procs[p].newId \in Rows(db')
                        /\ procs[p].best \in Rows(db')
                              => db'[procs[p].best].superseded_by
                                    = procs[p].newId
                        /\ procs'[p].pc # "failed"
                     \/ /\ db' = tx.snap
                        /\ procs[p].newId \notin Rows(db')
                        /\ procs'[p].pc = "failed"
            /\ procs'[p] # procs[p] => tx.owner \in {0, p}]_vars
    /\ [](tx.owner = 0 => NoDangling(db))

\* a committed supersession: the new row is there, the old one points at it
C1_Witness ==
    /\ tx.owner = 0
    /\ \E p \in Procs :
          /\ procs[p].op = "remember"
          /\ \E k \in DOMAIN procs[p].actions :
                LET act == procs[p].actions[k]
                IN  /\ act.action = "superseded"
                    /\ act.id \in Rows(db) /\ act.old \in Rows(db)
                    /\ db[act.old].superseded_by = act.id

\* the rows store_memory wrote for `content`
MemoryRows(content) ==
    {i \in Rows(db) : /\ db[i].kind = "memory"
                      /\ db[i].content_hash = contentHash(content)}

\* the store_memory calls for `content` that have returned
StoresDone(content) ==
    {p \in Procs : /\ procs[p].op = "store" /\ procs[p].text = content
                   /\ procs[p].pc = "done"}

\* C2: concurrent store_memory calls with one content leave one row whose
\* encounter_count is the number of calls that returned: one of them
\* inserted, the others reinforced, and none surfaces the constraint error.
C2_ConcurrentStoreOneRow ==
    \A c \in FactTexts :
        /\ Cardinality(MemoryRows(c)) <= 1
        /\ StoresDone(c) # {} =>
              /\ \E i \in MemoryRows(c) :
                    db[i].encounter_count = Cardinality(StoresDone(c))
              /\ Cardinality({p \in StoresDone(c) :
                                 procs[p].status = "stored"}) = 1
              /\ \A p \in StoresDone(c) :
                    procs[p].status \in {"stored", "strengthened"}
        /\ \A p \in Procs :
              procs[p].op = "store" => procs[p].err # "SQLITE_CONSTRAINT_UNIQUE"

\* every call returned; the row was last reinforced by a call that had read
\* the clock before the inserting call did: it lost the race after its embed
C2_Witness ==
    \E c \in FactTexts :
        /\ Cardinality(StoresDone(c)) = NumProcs
        /\ \E i \in MemoryRows(c) :
              /\ db[i].encounter_count = NumProcs
              /\ db[i].last_accessed_at < db[i].created_at

\* fact k of the batch is a duplicate of fact k + 1
DuplicateFacts(facts, k) ==
    RLt(DUPLICATE_THRESHOLD,
        cosineSimilarity(embed(facts[k].fact), embed(facts[k + 1].fact)))

\* C3: two duplicate facts of one batch collapse.  When a fact of the batch
\* was inserted as a new chunk and the fact after it is a duplicate of it,
\* that fact reinforces the chunk just written: the log of the call says
\* inserted then reinforced with one id, one row was created for the two,
\* and in a batch of these two facts its encounter_count is 2.
C3_IntraBatchDuplicate ==
    \A p \in Procs :
        (procs[p].op = "remember" /\ procs[p].pc = "done")
        => \A k \in 1 .. (Len(procs[p].facts) - 1) :
              (/\ DuplicateFacts(procs[p].facts, k)
               /\ procs[p].delivered[k].action = "inserted")
              => /\ procs[p].delivered[k + 1].action = "reinforced"
                 /\ procs[p].delivered[k + 1].id = procs[p].delivered[k].id
                 /\ (Len(procs[p].facts) = 2
                     /\ procs[p].delivered[k].id \in Rows(db))
                    => /\ db[procs[p].delivered[k].id].encounter_count = 2
                       /\ procs[p].made = {procs[p].delivered[k].id}

\* a batch of two duplicate facts ended with one chunk, encountered twice
C3_Witness ==
    \E p \in Procs :
        /\ procs[p].op = "remember" /\ procs[p].pc = "done"
        /\ Len(procs[p].facts) = 2
        /\ DuplicateFacts(procs[p].facts, 1)
        /\ procs[p].delivered[1].action = "inserted"
        /\ procs[p].delivered[2].action = "reinforced"
        /\ procs[p].made = {procs[p].delivered[1].id}
        /\ procs[p].delivered[1].id \in Rows(db)
        /\ db[procs[p].delivered[1].id].encounter_count = 2

\* C4: no outer transaction around a batch.  When remember_facts fails at
\* fact k, the table is what it was when fact k started (nothing of fact k
\* is in it) and what the facts before k wrote is still there.
C4_PartialBatchRemains ==
    [][\A p \in Procs :
          RememberFails(p)
          => /\ db' = IF tx.owner = p THEN tx.snap ELSE db
             /\ \A k \in DOMAIN procs[p].actions :
                   EffectIn(procs[p].actions[k], db')
             /\ procs[p].made \subseteq Rows(db')
             /\ procs[p].idx > 0
                   => Len(procs[p].actions) = procs[p].idx - 1]_vars

\* a batch failed at its second fact; the row of its first fact is there
C4_Witness ==
    \E p \in Procs :
        /\ procs[p].op = "remember" /\ procs[p].pc = "failed"
        /\ procs[p].idx = 2
        /\ Len(procs[p].actions) = 1
        /\ procs[p].actions[1].action = "inserted"
        /\ procs[p].actions[1].id \in Rows(db)

\* C5 as stated: a batch that fails at fact k hands its caller the action
\* log of the facts before k.
C5_LogDeliveredOnFailure ==
    \A p \in Procs :
        (procs[p].op = "remember" /\ procs[p].pc = "failed")
        => procs[p].delivered = procs[p].actions

\* C5: a batch that fails at fact k rejects with the error and hands its
\* caller no action log and no result; the progress of the facts before k
\* can be observed in the table only, where their rows are.
C5_FailureDeliversNoLog ==
    [][\A p \in Procs :
          RememberFails(p)
          => /\ procs'[p].err # ""
             /\ procs'[p].delivered = <<>>
             /\ procs'[p].result = <<>>
             /\ procs'[p].actions = procs[p].actions
             /\ \A k \in DOMAIN procs[p].actions :
                   procs[p].actions[k].id \in Rows(db')]_vars

\* a failed batch that had processed a fact: the caller holds an error only
C5_Witness ==
    \E p \in Procs :
        /\ procs[p].op = "remember" /\ procs[p].pc = "failed"
        /\ procs[p].err = "Error"
        /\ procs[p].actions # <<>>
        /\ procs[p].delivered = <<>>

\* the tools whose execute() takes the abort signal
SignalOps == {"remember", "store", "recall", "forget"}

\* C6: a call whose signal fires while it is suspended in an embedding or
\* LLM call fails with the cancellation error, and the step in which the
\* external call settles, like every step after it, writes nothing to the
\* table on behalf of that call.
C6_CancelStopsWrites ==
    [][\A p \in Procs :
          (procs'[p].cancelled /\ procs'[p] # procs[p])
          => /\ procs[p].op \in SignalOps
             /\ procs[p].pc \in SuspendedPcs
             /\ procs'[p].pc = "failed"
             /\ procs'[p].err = "Cancelled"
             /\ db' = db
             /\ tx' = tx]_vars

\* a batch cancelled at a later fact: its earlier rows were written before
C6_Witness ==
    \E p \in Procs :
        /\ procs[p].cancelled
        /\ procs[p].op = "remember"
        /\ procs[p].err = "Cancelled"
        /\ procs[p].made # {}

\* C7: a call that is suspended in an embedding or LLM call holds no open
\* transaction, and the owner of an open transaction is inside the
\* synchronous body of that transaction.
C7_NoTxAcrossAwait ==
    /\ \A p \in Procs : procs[p].pc \in SuspendedPcs => tx.owner # p
    /\ tx.owner # 0 => procs[tx.owner].pc \in {"sup_mark", "forget_tx"}

\* a batch suspended in embed() after its transaction of the fact before
C7_Witness ==
    \E p \in Procs :
        /\ procs[p].op = "remember" /\ procs[p].pc = "embed"
        /\ procs[p].actions # <<>>
        /\ procs[p].actions[Len(procs[p].actions)].action = "superseded"
        /\ tx.owner = 0

\* the chunk the newest action of slot p's log reinforced or superseded
Target(act) == IF act.action = "superseded" THEN act.old ELSE act.id

\* C8 as stated: remember_facts reinforces or supersedes active chunks
\* only: the chunk a step reinforces or marks superseded is in the table
\* with superseded_by NULL when the step runs.
C8_OnlyActiveTargets ==
    [][\A p \in Procs :
          (/\ procs[p].op = "remember" /\ procs'[p].op = "remember"
           /\ Len(procs'[p].actions) = Len(procs[p].actions) + 1
           /\ procs'[p].actions[Len(procs'[p].actions)].action
                 \in {"reinforced", "superseded"})
          => LET t == Target(procs'[p].actions[Len(procs'[p].actions)])
             IN  t \in Rows(db) /\ db[t].superseded_by = NULL]_vars

\* slot p's recall_memories call returns in this step
RecallReturns(p) ==
    /\ procs[p].op = "recall" /\ procs[p].pc = "embed"
    /\ procs'[p].pc = "done"

\* chunk i of table d passes the filters and floors of the recall in rec
Eligible(d, i, rec) ==
    /\ d[i].agent_id = rec.agent
    /\ d[i].superseded_by = NULL
    /\ rec.kind # "" => d[i].kind = rec.kind
    /\ RLe(DEFAULT_MIN_SIMILARITY,
           cosineSimilarity(embed(rec.text), d[i].embedding))
    /\ RLe(STRENGTH_FLOOR,
           RMul(d[i].running_intensity,
                IF i \in rec.aged THEN AGED_DECAY ELSE <<1, 1>>))

\* C9: recall_memories returns active chunks of the calling agent only,
\* never a superseded one, and every active chunk of the agent that passes
\* the kind filter and the two floors is returned unless `limit` chunks
\* were.
C9_RecallActiveOnly ==
    [][\A p \in Procs :
          RecallReturns(p)
          => LET rec == procs'[p]
                 ids == Range(rec.result)
             IN  /\ \A i \in ids : i \in Rows(db) /\ Eligible(db, i, rec)
                 /\ Cardinality(ids) = Len(rec.result)
                 /\ Len(rec.result) <= rec.limit
                 /\ \A i \in Rows(db) :
                       Eligible(db, i, rec)
                       => i \in ids \/ Len(rec.result) = rec.limit]_vars

\* a recall returned a chunk while the table held a superseded chunk that
\* is as similar to the query as the floor asks
C9_Witness ==
    \E p \in Procs :
        /\ procs[p].op = "recall" /\ procs[p].pc = "done"
        /\ procs[p].result # <<>>
        /\ \E i \in Rows(db) :
              /\ db[i].superseded_by # NULL
              /\ db[i].agent_id = procs[p].agent
              /\ i \notin Range(procs[p].result)
              /\ RLe(DEFAULT_MIN_SIMILARITY,
                     cosineSimilarity(embed(procs[p].text), db[i].embedding))

\* slot p's forget_memory call deletes one match in this step
ForgetDeletes(p) ==
    /\ procs[p].op = "forget" /\ procs[p].pc = "forget_tx"
    /\ procs'[p].pc # "failed"

\* C10: forget_memory, deleting chunk M, removes M and resets superseded_by
\* exactly on the chunks of the agent, in M's scope, whose superseded_by was
\* M's id; every other row keeps its superseded_by, so in a chain
\* A -> B -> C forgetting C makes B active and leaves A superseded by B.
C10_ForgetClearsDirectOnly ==
    [][\A p \in Procs :
          ForgetDeletes(p)
          => LET m == Head(procs[p].matches)
             IN  /\ Rows(db') = Rows(db) \ {m.id}
                 /\ \A i \in Rows(db') :
                       /\ db'[i].superseded_by =
                             IF /\ db[i].superseded_by = m.id
                                /\ db[i].agent_id = procs[p].agent
                                /\ db[i].scope = m.scope
                             THEN NULL
                             ELSE db[i].superseded_by
                       /\ [db'[i] EXCEPT !.superseded_by = NULL]
                             = [db[i] EXCEPT !.superseded_by = NULL]]_vars

\* the chain: the forgotten chunk's predecessor is active again, and a
\* chunk superseded by that predecessor still is
C10_Witness ==
    \E p \in Procs :
        /\ procs[p].op = "forget" /\ procs[p].pc = "done"
        /\ \E b \in procs[p].resurrected :
              /\ b \in Rows(db) /\ db[b].superseded_by = NULL
              /\ \E a \in Rows(db) : db[a].superseded_by = b

\* slot p's forget_memory call leaves its transaction in this step
ForgetCloses(p) ==
    /\ procs[p].op = "forget" /\ procs[p].pc = "forget_tx"
    /\ procs'[p].pc # "forget_tx"

\* C11: forget_memory is all or nothing.  When its transaction ends, either
\* the call returned and, against the table of BEGIN, every match is gone,
\* every row that pointed at a match has superseded_by NULL and nothing
\* else differs, or the call failed and the table is that of BEGIN; while
\* the transaction is open no other call and no deleteChunk takes a step.
C11_ForgetAllOrNothing ==
    [][\A p \in Procs :
          /\ ForgetCloses(p)
             => /\ tx.owner = p /\ tx'.owner = 0
                /\ \/ /\ procs'[p].pc = "failed"
                      /\ db' = tx.snap
                   \/ /\ procs'[p].pc = "done"
                      /\ LET gone == Range(procs'[p].result)
                         IN  /\ gone # {}
                             /\ Rows(db') = Rows(tx.snap) \ gone
                             /\ \A i \in Rows(db') :
                                   db'[i] =
                                     IF tx.snap[i].superseded_by \in gone
                                     THEN [tx.snap[i] EXCEPT
                                             !.superseded_by = NULL]
                                     ELSE tx.snap[i]
          /\ (tx.owner # 0 /\ tx.owner # p)
             => procs'[p] = procs[p] /\ opsLeft' = opsLeft]_vars

\* a forget that deleted two matches and resurrected the predecessor of one
C11_Witness ==
    \E p \in Procs :
        /\ procs[p].op = "forget" /\ procs[p].pc = "done"
        /\ Len(procs[p].result) >= 2
        /\ \E r \in procs[p].resurrected :
              r \in Rows(db) /\ db[r].superseded_by = NULL
        /\ tx.owner = 0

\* C13: forget_memory deletes active chunks only: the chunk a deleting step
\* removes has superseded_by NULL.  A superseded chunk becomes active again
\* only in a step that removes its superseder from the table.
C13_SupersededNotForgettable ==
    [][/\ \A p \in Procs :
             ForgetDeletes(p)
             => LET m == Head(procs[p].matches)
                IN  /\ m.id \in Rows(db)
                    /\ db[m.id].superseded_by = NULL
                    /\ m.id \notin Rows(db')
       /\ \A i \in Rows(db) \cap Rows(db') :
             (db[i].superseded_by # NULL /\ db'[i].superseded_by = NULL)
             => db[i].superseded_by \notin Rows(db')]_vars

\* a forget deleted a chunk and left in the table a superseded chunk that
\* matches the description at least as well as the threshold asks
C13_Witness ==
    \E p \in Procs :
        /\ procs[p].op = "forget" /\ procs[p].pc = "done"
        /\ procs[p].result # <<>>
        /\ \E i \in Rows(db) :
              /\ db[i].superseded_by # NULL
              /\ db[i].agent_id = procs[p].agent
              /\ RLe(DEFAULT_FORGET_THRESHOLD,
                     cosineSimilarity(embed(procs[p].text), db[i].embedding))

\* C12: forget_memory of one agent leaves the rows of every other agent as
\* they are, superseded_by included, even a row that points at the chunk
\* being deleted; of the agent's own rows in the scope of the match, the
\* ones that pointed at it get superseded_by NULL.
C12_ForgetAgentScoped ==
    [][\A p \in Procs :
          ForgetDeletes(p)
          => LET m == Head(procs[p].matches)
             IN  /\ m.agent_id = procs[p].agent
                 /\ \A i \in Rows(db) :
                       db[i].agent_id # procs[p].agent
                       => i \in Rows(db') /\ db'[i] = db[i]
                 /\ \A i \in Rows(db') :
                       (/\ db[i].agent_id = procs[p].agent
                        /\ db[i].scope = m.scope
                        /\ db[i].superseded_by = m.id)
                       => db'[i].superseded_by = NULL]_vars

\* after a forget, a row of another agent still points at a deleted chunk
\* while the agent's own predecessor of that chunk is active again
C12_Witness ==
    \E p \in Procs :
        /\ procs[p].op = "forget" /\ procs[p].pc = "done"
        /\ \E b \in Rows(db) :
              /\ db[b].agent_id # procs[p].agent
              /\ db[b].superseded_by \in Range(procs[p].result)
              /\ \E r \in procs[p].resurrected :
                    /\ r \in Rows(db)
                    /\ db[r].agent_id = procs[p].agent
                    /\ db[r].superseded_by = NULL
                    /\ tx.owner = 0

\* the rows of table d that belong to agent a
Own(d, a) == [i \in {j \in Rows(d) : d[j].agent_id = a} |-> d[i]]

\* the blocks of table b that belong to agent a
OwnBlocks(b, a) == [i \in {j \in DOMAIN b : j[1] = a} |-> b[i]]

\* every read statement, run for agent a, finds in the whole database what
\* it finds in the part of it that belongs to a
ReadsOwnOnly(a) ==
    /\ \A k \in {"fact", "memory"} :
          /\ getActiveChunksByAgent(db, a, k)
                = getActiveChunksByAgent(Own(db, a), a, k)
          /\ \A sc \in {normalizeScope(x) : x \in AllScopes} :
                getActiveChunksByAgentAndScope(db, a, k, sc)
                   = getActiveChunksByAgentAndScope(Own(db, a), a, k, sc)
    /\ getAllActiveChunksByAgent(db, a)
          = getAllActiveChunksByAgent(Own(db, a), a)
    /\ \A t \in Texts :
          /\ getMemoryByHash(db, a, contentHash(t))
                = getMemoryByHash(Own(db, a), a, contentHash(t))
          /\ UniqueViolation(db, SeedChunk(0, a, t))
                = UniqueViolation(Own(db, a), SeedChunk(0, a, t))
          /\ LET row == [SeedChunk(0, a, t) EXCEPT
                            !.kind = "memory",
                            !.content_hash = contentHash(t)]
             IN  UniqueViolation(db, row) = UniqueViolation(Own(db, a), row)
    /\ \A k \in BlockKeys, sc \in {normalizeScope(x) : x \in AllScopes} :
          getBlockByKeyAndScope(blocks, a, sc, k)
             = getBlockByKeyAndScope(OwnBlocks(blocks, a), a, sc, k)

\* C14: agent isolation.  A step of a tool call bound to agent a leaves the
\* chunks and the blocks of every other agent identical, the chunks the
\* call returns belong to a, and whatever a call of a reads is the same in
\* the database with the rows of the other agents taken away.
C14_AgentIsolation ==
    /\ [][\A p \in Procs :
            procs'[p] # procs[p]
            => LET a == procs'[p].agent
               IN  /\ \A o \in AllAgents \ {a} :
                         /\ Own(db', o) = Own(db, o)
                         /\ OwnBlocks(blocks', o) = OwnBlocks(blocks, o)
                   /\ \A i \in Range(procs'[p].result) :
                         /\ i \in Rows(db) => db[i].agent_id = a
                         /\ i \in Rows(db') => db'[i].agent_id = a]_vars
    /\ [](\A a \in AllAgents : ReadsOwnOnly(a))

\* a store_memory call inserted its own row although another agent holds a
\* memory of the same content
C14_Witness ==
    \E p \in Procs :
        /\ procs[p].op = "store" /\ procs[p].pc = "done"
        /\ procs[p].status = "stored"
        /\ \E i \in Range(procs[p].result) :
              /\ i \in Rows(db) /\ db[i].agent_id = procs[p].agent
              /\ \E j \in Rows(db) :
                    /\ db[j].agent_id # procs[p].agent
                    /\ db[j].kind = "memory"
                    /\ db[j].content_hash = db[i].content_hash

\* slot p's remember_facts call loads its working set in this step
RememberLoads(p) ==
    /\ procs[p].op = "remember" /\ procs[p].pc = "extract"
    /\ procs'[p].pc = "embed"

\* C15: scope isolation in remember_facts.  The scope of the call is
\* normalized; the working set it loads is exactly the active fact chunks
\* of its agent and scope; the chunk a step reinforces or supersedes has
\* that agent and scope; every row the call creates carries them.
C15_RememberScopeIsolation ==
    [][\A p \in Procs :
          (procs'[p].op = "remember" /\ procs'[p] # procs[p])
          => LET rec == procs'[p]
             IN  /\ normalizeScope(rec.scope) = rec.scope
                 /\ rec.scope # " "
                 /\ RememberLoads(p)
                    => {rec.ws[k].id : k \in DOMAIN rec.ws}
                          = {i \in Rows(db) : /\ db[i].agent_id = rec.agent
                                              /\ db[i].scope = rec.scope
                                              /\ db[i].kind = "fact"
                                              /\ db[i].superseded_by = NULL}
                 /\ \A i \in Rows(db') \ Rows(db) :
                       /\ db'[i].scope = rec.scope
                       /\ db'[i].agent_id = rec.agent
                 /\ \A i \in Rows(db) \cap Rows(db') :
                       db'[i] # db[i]
                       => /\ db[i].scope = rec.scope
                          /\ db[i].agent_id = rec.agent]_vars

\* a remember_facts call inserted a fact as new although the same agent
\* holds an active chunk of the same content in another scope
C15_Witness ==
    \E p \in Procs :
        /\ procs[p].op = "remember" /\ procs[p].pc = "done"
        /\ \E k \in DOMAIN procs[p].delivered :
              LET act == procs[p].delivered[k]
              IN  /\ act.action = "inserted"
                  /\ act.id \in Rows(db)
                  /\ db[act.id].scope = procs[p].scope
                  /\ \E j \in Rows(db) :
                        /\ db[j].agent_id = procs[p].agent
                        /\ db[j].kind = "fact"
                        /\ db[j].content = act.content
                        /\ db[j].superseded_by = NULL
                        /\ db[j].scope # procs[p].scope

\* the highest similarity of embedding `emb` to a chunk of working set ws
BestSimilarity(emb, ws) ==
    CHOOSE s \in {Sim(emb, ws[k]) : k \in DOMAIN ws} :
        \A k \in DOMAIN ws : ~RLt(s, Sim(emb, ws[k]))

\* the ids of the chunks of ws at similarity s to emb
ChunksAt(emb, ws, s) == {ws[k].id : k \in {j \in DOMAIN ws : Sim(emb, ws[j]) = s}}

\* embed() of the current fact of slot p's remember_facts call settles in
\* this step without an error
EmbedSettles(p) ==
    /\ procs[p].op = "remember" /\ procs[p].pc = "embed"
    /\ procs'[p] # procs[p]
    /\ procs'[p].pc # "failed"

\* classifyConflict of slot p's remember_facts call settles in this step
\* without an error
ClassifySettles(p) ==
    /\ procs[p].op = "remember" /\ procs[p].pc = "classify"
    /\ procs'[p] # procs[p]
    /\ procs'[p].pc # "failed"

\* the step appends one entry to the action log of slot p
Logged(p) == Len(procs'[p].actions) = Len(procs[p].actions) + 1

\* the newest entry of the action log of slot p after the step
Newest(p) == procs'[p].actions[Len(procs'[p].actions)]

\* C16: the three branches of processFact.  With best the most similar
\* chunk of the working set: no candidate or best.similarity < 0.78 inserts
\* the fact as a new chunk without a classifier call; best.similarity > 0.93
\* reinforces best without a classifier call; otherwise the classifier is
\* called once, for the fact and best, the table untouched until it
\* settles, and the verdict it gives is the branch taken.
C16_ThresholdBranches ==
    [][\A p \in Procs :
          /\ EmbedSettles(p)
             => LET rec == procs[p]
                    emb == embed(rec.facts[rec.idx].fact)
                    none == rec.ws = <<>>
                    s == BestSimilarity(emb, rec.ws)
                IN  /\ (none \/ RLt(s, AMBIGUOUS_THRESHOLD))
                       => /\ procs'[p].pc # "classify"
                          /\ Logged(p)
                          /\ Newest(p).action = "inserted"
                          /\ Newest(p).content = rec.facts[rec.idx].fact
                          /\ Newest(p).id \in Rows(db') \ Rows(db)
                    /\ (~none /\ RLt(DUPLICATE_THRESHOLD, s))
                       => /\ procs'[p].pc # "classify"
                          /\ Logged(p)
                          /\ Newest(p).action = "reinforced"
                          /\ Newest(p).id \in ChunksAt(emb, rec.ws, s)
                          /\ Rows(db') = Rows(db)
                    /\ (/\ ~none
                        /\ ~RLt(s, AMBIGUOUS_THRESHOLD)
                        /\ ~RLt(DUPLICATE_THRESHOLD, s))
                       => /\ procs'[p].pc = "classify"
                          /\ procs'[p].idx = rec.idx
                          /\ procs'[p].best \in ChunksAt(emb, rec.ws, s)
                          /\ procs'[p].actions = rec.actions
                          /\ db' = db
          /\ ClassifySettles(p)
             => LET rec == procs[p]
                    v == procs'[p].verdict
                IN  /\ procs'[p].pc # "classify"
                    /\ v \in Verdicts
                    /\ v = "DUPLICATE"
                       => /\ Logged(p)
                          /\ Newest(p).action = "reinforced"
                          /\ Newest(p).id = rec.best
                          /\ Rows(db') = Rows(db)
                    /\ v = "SUPERSEDES"
                       => /\ procs'[p].pc = "sup_mark"
                          /\ procs'[p].best = rec.best
                          /\ procs'[p].newId \in Rows(db') \ Rows(db)
                          /\ db'[procs'[p].newId].content
                                = rec.facts[rec.idx].fact
                    /\ v = "DISTINCT"
                       => /\ Logged(p)
                          /\ Newest(p).action = "inserted"
                          /\ Newest(p).id \in Rows(db') \ Rows(db)]_vars

\* the classifier is being asked about a fact whose best candidate is at
\* similarity 0.93 exactly
C16_Witness ==
    \E p \in Procs :
        /\ procs[p].op = "remember" /\ procs[p].pc = "classify"
        /\ LET s == BestSimilarity(embed(procs[p].facts[procs[p].idx].fact),
                                   procs[p].ws)
           IN  ~RLt(s, DUPLICATE_THRESHOLD) /\ ~RLt(DUPLICATE_THRESHOLD, s)

\* slot p's remember_facts call goes into classifyConflict in this step
ClassifierCalled(p) ==
    /\ procs'[p].op = "remember" /\ procs'[p].pc = "classify"
    /\ procs[p].pc # "classify"

\* C17 as stated: the classifier is called exactly when the best
\* similarity s satisfies 0.78 < s <= 0.93.
C17_BandOpenAtAmbiguous ==
    [][\A p \in Procs :
          /\ ClassifierCalled(p) => EmbedSettles(p)
          /\ EmbedSettles(p)
             => LET rec == procs[p]
                    emb == embed(rec.facts[rec.idx].fact)
                    s == BestSimilarity(emb, rec.ws)
                IN  ClassifierCalled(p)
                       <=> /\ rec.ws # <<>>
                           /\ RLt(AMBIGUOUS_THRESHOLD, s)
                           /\ ~RLt(DUPLICATE_THRESHOLD, s)]_vars

\* C17: the classifier is called exactly when there is a candidate and the
\* best similarity s satisfies 0.78 <= s <= 0.93: the band is closed at
\* both ends; for s < 0.78 or s > 0.93 no classification call is made.
C17_BandClosedAtAmbiguous ==
    [][\A p \in Procs :
          /\ ClassifierCalled(p) => EmbedSettles(p)
          /\ EmbedSettles(p)
             => LET rec == procs[p]
                    emb == embed(rec.facts[rec.idx].fact)
                    s == BestSimilarity(emb, rec.ws)
                IN  ClassifierCalled(p)
                       <=> /\ rec.ws # <<>>
                           /\ ~RLt(s, AMBIGUOUS_THRESHOLD)
                           /\ ~RLt(DUPLICATE_THRESHOLD, s)]_vars

\* the classifier is being asked about a fact whose best candidate is at
\* similarity 0.78 exactly
C17_Witness ==
    \E p \in Procs :
        /\ procs[p].op = "remember" /\ procs[p].pc = "classify"
        /\ LET s == BestSimilarity(embed(procs[p].facts[procs[p].idx].fact),
                                   procs[p].ws)
           IN  ~RLt(s, AMBIGUOUS_THRESHOLD) /\ ~RLt(AMBIGUOUS_THRESHOLD, s)

\* the memory rows of table d for (agent, scope, content)
MemoryRowsOf(d, agent, scope, content) ==
    {i \in Rows(d) : /\ d[i].kind = "memory"
                     /\ d[i].agent_id = agent
                     /\ d[i].scope = scope
                     /\ d[i].content = content}

\* slot p's store_memory call returns in this step
StoreReturns(p) ==
    /\ procs'[p].op = "store" /\ procs'[p].pc = "done"
    /\ procs'[p] # procs[p]

\* C18: storing a content twice.  A store_memory call that returns leaves
\* exactly one memory row for its (agent, scope, content).  The call that
\* finds none inserts it with encounter_count 1; the call that finds the
\* row inserts nothing and adds one to its encounter_count: after two
\* consecutive calls there is one row with encounter_count 2.
C18_StoreTwiceOneRow ==
    [][\A p \in Procs :
          StoreReturns(p)
          => LET rec == procs'[p]
                 before == MemoryRowsOf(db, rec.agent, rec.scope, rec.text)
                 after == MemoryRowsOf(db', rec.agent, rec.scope, rec.text)
             IN  /\ Cardinality(after) = 1
                 /\ before = {}
                    => /\ rec.status = "stored"
                       /\ \A i \in after : db'[i].encounter_count = 1
                 /\ before # {}
                    => /\ rec.status = "strengthened"
                       /\ Rows(db') = Rows(db)
                       /\ after = before
                       /\ \A i \in after :
                             /\ db'[i].encounter_count
                                   = db[i].encounter_count + 1
                             /\ db[i].encounter_count = 1
                                => db'[i].encounter_count = 2]_vars

\* the second of two store_memory calls of one agent and content has
\* returned: the table holds one row, encountered twice
C18_Witness ==
    \E p \in Procs :
        /\ procs[p].op = "store" /\ procs[p].pc = "done"
        /\ procs[p].status = "strengthened"
        /\ LET rows == MemoryRowsOf(db, procs[p].agent, procs[p].scope,
                                    procs[p].text)
           IN  /\ Cardinality(rows) = 1
               /\ \A i \in rows : db[i].encounter_count = 2
        /\ Cardinality(Rows(db)) = 1

\* slot p's store_memory call finds its content stored and returns in this
\* step
StoreRepeats(p) == StoreReturns(p) /\ procs'[p].status = "strengthened"

\* `now` of slot p's store_memory call: read when the call began, which is
\* this step unless the call was suspended in embed()
StoreTime(p) ==
    IF procs[p].op = "store" /\ procs[p].pc = "embed"
    THEN procs[p].now ELSE clock

\* C19 as stated: a repeated store_memory adds no row and changes nothing
\* but the existing row's encounter_count and timestamps.
C19_OnlyCountAndTimestamps ==
    [][\A p \in Procs :
          StoreRepeats(p)
          => /\ Rows(db') = Rows(db)
             /\ \A i \in Rows(db) :
                   db'[i] = [db[i] EXCEPT
                                !.encounter_count = db'[i].encounter_count,
                                !.last_accessed_at = db'[i].last_accessed_at,
                                !.created_at = db'[i].created_at]]_vars

\* C19: a repeated store_memory adds no row and leaves every other row as
\* it was; of the existing row it changes encounter_count (+1),
\* access_count (+1), last_accessed_at (the time of the call) and
\* running_intensity (the running average with a reading of 0.5), and
\* nothing else: created_at, content, hash, embedding, kind, scope and
\* superseded_by stay.
C19_RepeatedStoreFrame ==
    [][\A p \in Procs :
          StoreRepeats(p)
          => /\ Rows(db') = Rows(db)
             /\ \E t \in Rows(db) :
                   /\ t \in MemoryRowsOf(db, procs'[p].agent, procs'[p].scope,
                                         procs'[p].text)
                   /\ \A i \in Rows(db) \ {t} : db'[i] = db[i]
                   /\ db'[t] = [db[t] EXCEPT
                                   !.encounter_count = @ + 1,
                                   !.access_count = @ + 1,
                                   !.last_accessed_at = StoreTime(p),
                                   !.running_intensity =
                                       updatedIntensity(
                                           db[t].running_intensity,
                                           db[t].encounter_count,
                                           DEFAULT_INTENSITY)]]_vars

\* a repeated store_memory has returned and the row it strengthened has an
\* access_count above 0 and a running_intensity off the default: the call
\* changed both
C19_Witness ==
    \E p \in Procs :
        /\ procs[p].op = "store" /\ procs[p].pc = "done"
        /\ procs[p].status = "strengthened"
        /\ \E i \in MemoryRowsOf(db, procs[p].agent, procs[p].scope,
                                 procs[p].text) :
              /\ db[i].encounter_count = 2
              /\ db[i].access_count >= 2
              /\ db[i].running_intensity # DEFAULT_INTENSITY
              /\ db[i].created_at < db[i].last_accessed_at

\* the faults of a step that were raised and not swallowed by the rule
\* "busy and locked are transient"
Fatal(faults) ==
    {k \in DOMAIN faults : faults[k] \notin {NO_FAULT, "SQLITE_BUSY",
                                             "SQLITE_LOCKED"}}

\* row i after the step is row i before it with the retrieval boost applied
\* at time `at`
Boosted(i, at) ==
    db'[i] = [db[i] EXCEPT !.access_count = @ + 1,
                           !.running_intensity = retrievalBoost(@),
                           !.last_accessed_at = at]

\* embed() of slot p's recall_memories call settles in this step without an
\* error, and the call goes into its boost loop
RecallBoosts(p) ==
    /\ procs[p].op = "recall" /\ procs[p].pc = "embed"
    /\ procs'[p] # procs[p]
    /\ ~procs'[p].cancelled
    /\ procs'[p].err # "Error"

\* C20: storage errors in recall_memories and elsewhere.  With faults[k]
\* the error the boost write of the k-th returned chunk raises: if none of
\* them has a code other than busy and locked the call returns all its
\* results, the chunks whose write raised nothing boosted and the others
\* as they were; at the first error with another code the call fails with
\* that code, the boosts before it written and nothing after it.  A
\* storage error raised in a transaction of remember_facts or
\* forget_memory fails the call with its code, busy and locked included.
C20_TransientSwallowedInBoostOnly ==
    [][\A p \in Procs :
          /\ RecallBoosts(p)
             => LET faults == procs'[p].faults
                    res == procs'[p].result
                    changed == {i \in Rows(db) : db'[i] # db[i]}
                IN  /\ Rows(db') = Rows(db)
                    /\ \A i \in changed : Boosted(i, procs[p].now)
                    /\ Fatal(faults) = {}
                       => /\ procs'[p].pc = "done"
                          /\ Len(res) = Len(faults)
                          /\ \A k \in DOMAIN res :
                                /\ faults[k] = NO_FAULT => res[k] \in changed
                                /\ faults[k] # NO_FAULT => db'[res[k]] = db[res[k]]
                    /\ Fatal(faults) # {}
                       => \E k \in Fatal(faults) :
                             /\ \A j \in Fatal(faults) : k <= j
                             /\ procs'[p].pc = "failed"
                             /\ procs'[p].err = faults[k]
                             /\ res = <<>>
                             /\ Cardinality(changed)
                                   = Cardinality({j \in 1 .. (k - 1) :
                                                     faults[j] = NO_FAULT})
          /\ (/\ procs'[p] # procs[p]
              /\ procs'[p].op \in {"remember", "forget"}
              /\ procs'[p].faults # <<>>)
             => /\ procs'[p].faults[1] \in StorageCodes
                /\ procs'[p].pc = "failed"
                /\ procs'[p].err = procs'[p].faults[1]
                /\ procs'[p].result = <<>>]_vars

\* a recall_memories call returned two results: the boost write of the
\* first raised busy or locked and the chunk is as it was, the second is
\* boosted
C20_Witness ==
    \E p \in Procs :
        /\ procs[p].op = "recall" /\ procs[p].pc = "done"
        /\ Len(procs[p].result) = 2
        /\ procs[p].faults[1] \in {"SQLITE_BUSY", "SQLITE_LOCKED"}
        /\ procs[p].faults[2] = NO_FAULT
        /\ \A k \in 1 .. 2 : procs[p].result[k] \in Rows(db)
        /\ db[procs[p].result[1]].access_count = 0
        /\ db[procs[p].result[2]].access_count = 1

\* a verifyEmbeddingModel call happens in this step
Verifies == opened' # opened \/ meta' # meta

\* C21: the embedding-model pin.  The first verifyEmbeddingModel call
\* records its model; a later call with the recorded model succeeds, a
\* later call with another model fails with the mismatch error, and
\* neither changes the record: once set, the pin never changes.
C21_PinNeverChanges ==
    /\ [][Verifies
           => /\ opened'.model \in Models
              /\ meta = NO_MODEL
                 => meta' = opened'.model /\ opened'.err = ""
              /\ (meta # NO_MODEL /\ meta = opened'.model)
                 => meta' = meta /\ opened'.err = ""
              /\ (meta # NO_MODEL /\ meta # opened'.model)
                 => /\ meta' = meta
                    /\ opened'.err = "Embedding model mismatch"]_vars
    /\ [][meta # NO_MODEL => meta' = meta]_vars
    /\ [](opened.err = "" /\ opened.model # NO_MODEL => meta = opened.model)

\* an open with another model than the recorded one has failed, with
\* memories stored in the database
C21_Witness ==
    /\ opened.err = "Embedding model mismatch"
    /\ meta \in Models
    /\ meta # opened.model
    /\ Rows(db) # {}

\* deleteChunk removes a row in this step: the administrative entry point
\* belongs to no tool call
DeleteRemoves == procs' = procs /\ Rows(db') # Rows(db)

\* C22: delete_chunk after a supersession.  The step removes one chunk B;
\* every chunk whose superseded_by was B is the same but for superseded_by,
\* now NULL: the predecessor is active again; every other chunk is
\* unchanged.
C22_DeleteResurrectsPredecessor ==
    [][DeleteRemoves
       => \E b \in Rows(db) :
             /\ Rows(db') = Rows(db) \ {b}
             /\ \A i \in Rows(db') :
                   /\ db[i].superseded_by = b
                      => db'[i] = [db[i] EXCEPT !.superseded_by = NULL]
                   /\ db[i].superseded_by # b => db'[i] = db[i]]_vars

\* remember_facts superseded chunk A by chunk B, B was deleted, and A is
\* in the table, active
C22_Witness ==
    \E p \in Procs :
        /\ procs[p].op = "remember" /\ procs[p].pc = "done"
        /\ \E k \in DOMAIN procs[p].delivered :
              LET act == procs[p].delivered[k]
              IN  /\ act.action = "superseded"
                  /\ act.id \notin Rows(db)
                  /\ act.old \in Rows(db)
                  /\ db[act.old].superseded_by = NULL

\* embed() of slot p's updateChunk call settles in this step
UpdateSettles(p) ==
    /\ procs[p].op = "update" /\ procs[p].pc = "embed"
    /\ procs'[p] # procs[p]

\* another memory of the agent and scope of chunk id has the hash of text
HashTaken(d, id, text) ==
    /\ id \in Rows(d)
    /\ d[id].kind = "memory"
    /\ \E j \in Rows(d) \ {id} :
          /\ d[j].kind = "memory"
          /\ d[j].agent_id = d[id].agent_id
          /\ d[j].scope = d[id].scope
          /\ d[j].content_hash = contentHash(text)

\* C23: update_chunk is atomic.  The step in which the update runs either
\* fails and leaves the table exactly as it was, or succeeds and changes
\* content, content_hash, embedding, created_at and last_accessed_at of the
\* one row together; when another memory of the same agent and scope has
\* the new content's hash the call fails.
C23_UpdateAtomic ==
    [][\A p \in Procs :
          UpdateSettles(p)
          => LET rec == procs[p]
                 id == rec.best
             IN  /\ procs'[p].pc \in {"failed", "done"}
                 /\ procs'[p].pc = "failed" => db' = db
                 /\ HashTaken(db, id, rec.text)
                    => /\ procs'[p].pc = "failed"
                       /\ procs'[p].err \in {"SQLITE_CONSTRAINT_UNIQUE",
                                             "Error"}
                 /\ procs'[p].pc = "done"
                    => /\ id \in Rows(db)
                       /\ Rows(db') = Rows(db)
                       /\ \A i \in Rows(db) \ {id} : db'[i] = db[i]
                       /\ db'[id] =
                            [db[id] EXCEPT
                                !.content = rec.text,
                                !.content_hash =
                                    IF db[id].kind = "memory"
                                    THEN contentHash(rec.text) ELSE NO_HASH,
                                !.embedding = embed(rec.text),
                                !.created_at = rec.now,
                                !.last_accessed_at = rec.now]]_vars

\* an update of a memory to the content of another memory has failed on
\* the constraint, and no row has the content twice
C23_Witness ==
    \E p \in Procs :
        /\ procs[p].op = "update" /\ procs[p].pc = "failed"
        /\ procs[p].err = "SQLITE_CONSTRAINT_UNIQUE"
        /\ Cardinality({i \in Rows(db) : db[i].kind = "memory"}) = 2
        /\ \A i, j \in Rows(db) :
              (db[i].content = db[j].content /\ db[i].kind = db[j].kind)
              => i = j

\* C24: memories are never superseded.  Every chunk of kind memory has
\* superseded_by NULL, and a step that sets superseded_by of a chunk sets
\* it on a fact chunk, in the transaction of a remember_facts call.
C24_MemoriesNeverSuperseded ==
    /\ [](\A i \in Rows(db) :
             db[i].kind = "memory" => db[i].superseded_by = NULL)
    /\ [][\A i \in Rows(db) \cap Rows(db') :
             (db[i].superseded_by = NULL /\ db'[i].superseded_by # NULL)
             => /\ db[i].kind = "fact"
                /\ \E p \in Procs :
                      /\ procs[p].op = "remember"
                      /\ procs[p].pc = "sup_mark"
                      /\ procs[p].best = i]_vars

\* a remember_facts call superseded a fact while the same agent holds a
\* memory, which is active
C24_Witness ==
    /\ \E i \in Rows(db) : db[i].kind = "fact" /\ db[i].superseded_by # NULL
    /\ \E i \in Rows(db) : db[i].kind = "memory" /\ db[i].superseded_by = NULL

\* C25: running_intensity stays in [0, 1].  Whatever the LLM reads, after
\* any inserts, reinforcements and retrieval boosts every chunk's
\* running_intensity is at least 0 and at most 1.
C25_IntensityInUnitInterval ==
    \A i \in Rows(db) :
        /\ RLe(<<0, 1>>, db[i].running_intensity)
        /\ RLe(db[i].running_intensity, <<1, 1>>)

\* a chunk inserted at intensity 1 has been boosted by a recall and is at 1
C25_Witness ==
    \E i \in Rows(db) :
        /\ db[i].kind = "fact"
        /\ db[i].running_intensity = <<1, 1>>
        /\ db[i].access_count >= 1

\* C26: content_hash follows kind and content.  In every state every fact
\* chunk has content_hash NULL and every memory chunk has the hash of the
\* content it has now, updates included.
C26_HashMatchesContent ==
    \A i \in Rows(db) :
        /\ db[i].kind = "fact" => db[i].content_hash = NO_HASH
        /\ db[i].kind = "memory"
           => db[i].content_hash = contentHash(db[i].content)

\* updateChunk has rewritten a memory: the row has the new content and its
\* hash
C26_Witness ==
    \E p \in Procs :
        /\ procs[p].op = "update" /\ procs[p].pc = "done"
        /\ \E i \in Range(procs[p].result) :
              /\ i \in Rows(db)
              /\ db[i].kind = "memory"
              /\ db[i].content = procs[p].text
              /\ db[i].content_hash = contentHash(procs[p].text)
              /\ db[i].created_at > 1

\* the table as committed: inside a transaction, the table at its BEGIN
Committed(d, t) == IF t.owner = 0 THEN d ELSE t.snap

\* C27: chunk rows are destroyed only by forget_memory and deleteChunk.
\* A step of a remember_facts, store_memory, recall_memories or
\* updateChunk call removes no committed row, and a step that removes one
\* is a step of a forget_memory call or of deleteChunk; a superseded chunk
\* keeps its row.
C27_RowsDestroyedOnlyByDelete ==
    [][LET before == Rows(Committed(db, tx))
           after == Rows(Committed(db', tx'))
       IN  /\ \A p \in Procs :
                 (/\ procs'[p] # procs[p]
                  /\ procs'[p].op \in {"remember", "store", "recall",
                                       "update"})
                 => before \subseteq after
           /\ before \ after # {}
              => \/ procs' = procs
                 \/ \E p \in Procs :
                       /\ procs[p].op = "forget"
                       /\ procs[p].pc = "forget_tx"
                       /\ procs'[p].pc = "done"]_vars

\* remember_facts has superseded a chunk, whose row is in the table, and a
\* recall_memories call after it has returned without it
C27_Witness ==
    /\ \E i \in Rows(db) :
          /\ db[i].superseded_by # NULL
          /\ db[i].superseded_by \in Rows(db)
          /\ \E p \in Procs :
                /\ procs[p].op = "recall" /\ procs[p].pc = "done"
                /\ procs[p].result # <<>>
                /\ i \notin Range(procs[p].result)
                /\ db[i].superseded_by \in Range(procs[p].result)

\* C28: an unrecognized classifier response.  When the first
\* whitespace-delimited token of the response, its non-letters dropped and
\* upper-cased, is none of DUPLICATE, SUPERSEDES, DISTINCT (an empty and a
\* whitespace-only response included), the verdict is DISTINCT: the fact
\* is inserted as a new chunk and every chunk that was in the table, the
\* candidate among them, is unchanged.
C28_UnrecognizedIsDistinct ==
    [][\A p \in Procs :
          (/\ ClassifySettles(p)
           /\ firstWord(procs'[p].response)
                 \notin {DUPLICATE, SUPERSEDES, DISTINCT})
          => /\ procs'[p].verdict = "DISTINCT"
             /\ Logged(p)
             /\ Newest(p).action = "inserted"
             /\ Newest(p).content = procs[p].facts[procs[p].idx].fact
             /\ Newest(p).id \in Rows(db') \ Rows(db)
             /\ db'[Newest(p).id].superseded_by = NULL
             /\ \A i \in Rows(db) : i \in Rows(db') /\ db'[i] = db[i]]_vars

\* the classifier answered with whitespace alone, and the fact went in
\* beside its candidate
C28_Witness ==
    \E p \in Procs :
        /\ procs[p].op = "remember" /\ procs[p].pc = "done"
        /\ procs[p].response # <<>>
        /\ trim(procs[p].response) = <<>>
        /\ procs[p].verdict = "DISTINCT"
        /\ Len(procs[p].delivered) = 2
        /\ procs[p].delivered[2].action = "inserted"
        /\ \A k \in 1 .. 2 :
              /\ procs[p].delivered[k].id \in Rows(db)
              /\ db[procs[p].delivered[k].id].superseded_by = NULL
              /\ db[procs[p].delivered[k].id].encounter_count = 1

\* the slot p takes a call of tool `op` in this step
Arrives(p, op) ==
    /\ FreeSlot(p)
    /\ opsLeft' < opsLeft
    /\ procs'[p].op = op
    /\ \A q \in Procs \ {p} : procs'[q] = procs[q]

\* the call in slot p is waiting for the LLM or for the embedding function
Awaiting(p) == procs[p].pc \in {"extract", "embed", "classify"}

\* C29: a remember_facts call whose text is longer than max_text_length
\* (10,000 characters unless the tool was created with another limit) is
\* rejected with "Input text too long" in the step it arrives in: it never
\* waits for the LLM or for an embedding, and the table, the open
\* transaction and the id counter are as they were.
C29_TooLongTextRejectedAtOnce ==
    /\ [][\A p \in Procs :
            (Arrives(p, "remember") /\ procs'[p].length > procs'[p].maxLen)
            => /\ procs'[p].pc = "failed"
               /\ procs'[p].err = "Input text too long"
               /\ procs'[p].result = <<>>
               /\ db' = db
               /\ tx' = tx
               /\ nextId' = nextId]_vars
    /\ [](\A p \in Procs :
            (procs[p].op = "remember" /\ Awaiting(p))
            => procs[p].length <= procs[p].maxLen)

\* a text of 10,001 characters was rejected by a tool with the default
\* limit while the table held a row
C29_Witness ==
    \E p \in Procs :
        /\ procs[p].op = "remember"
        /\ procs[p].length = MAX_TEXT_LENGTH + 1
        /\ procs[p].maxLen = MAX_TEXT_LENGTH
        /\ procs[p].err = "Input text too long"
        /\ Rows(db) # {}

C30_WitnessWithin ==
    \E p \in Procs :
        /\ procs[p].op = "store"
        /\ procs[p].length = 3
        /\ procs[p].maxContentLength = {3}
        /\ procs[p].pc = "done"
        /\ procs[p].status = "stored"

\* C31: a replace_memory_block call with an empty old_text on a block that
\* exists returns the error empty_old_text and leaves the table of blocks
\* as it was.
C31_EmptyOldTextRejected ==
    [][\A p \in Procs :
          (/\ Arrives(p, "replace_block")
           /\ procs'[p].edit = <<>>
           /\ getBlockByKey(blocks, procs'[p].agent, procs'[p].key) # <<>>)
          => /\ procs'[p].status = "empty_old_text"
             /\ blocks' = blocks]_vars

\* the call in slot p takes a step
Steps(p) == procs'[p] # procs[p]

\* the call in slot p waits for the embedding that comes before its first
\* write: the only one of store_memory and forget_memory, the one of the
\* first fact of a remember_facts batch
FirstEmbed(p) ==
    /\ procs[p].pc = "embed"
    /\ \/ procs[p].op \in {"store", "forget"}
       \/ procs[p].op = "remember" /\ procs[p].idx = 1

\* C32: when the embedding call of store_memory, of forget_memory or of the
\* first fact of a remember_facts batch fails, the call ends with the error
\* and has written nothing: no step of the call up to that embedding, and
\* not the step in which the embedding fails, changes the table, the id
\* counter or the transaction.
C32_EmbedFailureWritesNothing ==
    /\ [][\A p \in Procs :
            (Steps(p) /\ FirstEmbed(p)')
            => db' = db /\ nextId' = nextId /\ tx' = tx]_vars
    /\ [][\A p \in Procs :
            (Steps(p) /\ FirstEmbed(p)
               /\ (procs'[p].pc = "failed" \/ procs'[p].cancelled))
            => /\ procs'[p].pc = "failed"
               /\ procs'[p].err # ""
               /\ procs'[p].result = <<>>
               /\ procs'[p].delivered = <<>>
               /\ db' = db
               /\ nextId' = nextId
               /\ tx' = tx]_vars
    /\ [](\A p \in Procs :
            (procs[p].op = "remember" /\ procs[p].pc = "extract")
            => procs[p].made = {})

\* the embedding of a store_memory call failed while the table held a row
C32_Witness ==
    \E p \in Procs :
        /\ procs[p].op = "store"
        /\ procs[p].pc = "failed"
        /\ procs[p].err = "Error"
        /\ Rows(db) # {}

\* the chunks of table d that belong to agent a
ChunksOf(d, a) == {i \in Rows(d) : d[i].agent_id = a}

\* C33: once an agent has been exported and the file imported into a fresh
\* database, that database holds every chunk of the agent under its id,
\* with the same content, kind, embedding, content_hash, counters,
\* timestamps and superseded_by, and for every block of the agent a block
\* of the same key and value, as many blocks as the agent has, and the
\* import has skipped nothing.
C33_ExportImportRestoresAll ==
    restored.done =>
        LET a == dump.agentId
            own == {i \in DOMAIN blocks : i[1] = a}
        IN  /\ Rows(restored.db) = ChunksOf(db, a)
            /\ \A i \in ChunksOf(db, a) :
                  [restored.db[i] EXCEPT !.scope = db[i].scope] = db[i]
            /\ Cardinality(DOMAIN restored.blocks) = Cardinality(own)
            /\ \A i \in own :
                  \E j \in DOMAIN restored.blocks :
                     j[3] = i[3] /\ restored.blocks[j].value = blocks[i].value
            /\ restored.chunksSkipped = 0
            /\ restored.blocksSkipped = 0

\* the part of it that is about chunks
ChunksRestored ==
    restored.done =>
        /\ Rows(restored.db) = ChunksOf(db, dump.agentId)
        /\ \A i \in ChunksOf(db, dump.agentId) :
              [restored.db[i] EXCEPT !.scope = db[i].scope] = db[i]
        /\ restored.chunksSkipped = 0

\* chunk i is under one of the floors of slot p's recall, which found the
\* chunks `aged` decayed: its similarity to the query is below the minimum
\* similarity or its effective strength is below STRENGTH_FLOOR
BelowFloor(i, query, aged) ==
    \/ RLt(cosineSimilarity(embed(query), db[i].embedding),
           DEFAULT_MIN_SIMILARITY)
    \/ RLt(effectiveStrength(db[i].running_intensity, i \in aged),
           STRENGTH_FLOOR)

\* C34: a recall_memories call that returns gives back no chunk that is
\* under a floor and leaves every such chunk as it was, so that a call
\* whose every chunk is under a floor returns nothing and writes nothing;
\* every chunk it does return has similarity of at least the minimum
\* similarity and effective strength of at least STRENGTH_FLOOR.
C34_FloorsExclude ==
    [][\A p \in Procs :
          RecallReturns(p)
          => LET rec == procs'[p]
                 ids == Range(rec.result)
             IN  /\ \A i \in Rows(db) :
                       BelowFloor(i, rec.text, rec.aged)
                       => i \notin ids /\ db'[i] = db[i]
                 /\ \A i \in ids :
                       /\ RLe(DEFAULT_MIN_SIMILARITY,
                              cosineSimilarity(embed(rec.text),
                                               db[i].embedding))
                       /\ RLe(STRENGTH_FLOOR,
                              effectiveStrength(db[i].running_intensity,
                                                i \in rec.aged))
                 /\ (\A i \in Rows(db) : BelowFloor(i, rec.text, rec.aged))
                       => rec.result = <<>> /\ db' = db]_vars

\* a recall returned nothing while the table held an active chunk of the
\* agent that is aged and as similar to the query as can be
C34_Witness ==
    \E p \in Procs :
        /\ procs[p].op = "recall" /\ procs[p].pc = "done"
        /\ procs[p].result = <<>>
        /\ \E i \in procs[p].aged :
              /\ i \in Rows(db)
              /\ db[i].agent_id = procs[p].agent
              /\ db[i].superseded_by = NULL
              /\ db[i].content = procs[p].text

\* a recall returned nothing while the table held an active chunk of the
\* agent that is not aged and is orthogonal to the query
C34_WitnessSimilarity ==
    \E p \in Procs :
        /\ procs[p].op = "recall" /\ procs[p].pc = "done"
        /\ procs[p].result = <<>>
        /\ procs[p].aged = {}
        /\ \E i \in Rows(db) :
              /\ db[i].agent_id = procs[p].agent
              /\ db[i].superseded_by = NULL

\* C35: in every state, the transaction of a call being open or not, every
\* superseded_by that is not NULL is the id of a row of the table, and that
\* row has the agent_id of the row that points at it.
C35_SupersededByTargetsOwnAgent ==
    \A i \in Rows(db) :
        db[i].superseded_by # NULL
        => /\ db[i].superseded_by \in Rows(db)
           /\ db[db[i].superseded_by].agent_id = db[i].agent_id

\* a forget_memory call has deleted the chunk that superseded another, the
\* link of that one is cleared, and a call of the other slot has run
C35_Witness ==
    \E p \in Procs :
        /\ procs[p].op = "forget" /\ procs[p].pc = "done"
        /\ procs[p].result # <<>>
        /\ \E r \in procs[p].resurrected :
              r \in Rows(db) /\ db[r].superseded_by = NULL
        /\ \E q \in Procs \ {p} : procs[q].op = "remember"

\* slot p's remember_facts call logs the action of its current fact in this
\* step
LogsAction(p) ==
    /\ procs[p].op = "remember"
    /\ procs[p].pc \in {"embed", "classify", "sup_mark"}
    /\ Len(procs'[p].actions) = Len(procs[p].actions) + 1

\* what the action logged last says has happened, against the table before
\* and after the step that logs it
ActionCommitted(act) ==
    CASE act.action = "inserted" ->
            /\ act.id \in Rows(db') \ Rows(db)
            /\ db'[act.id].content = act.content
      [] act.action = "reinforced" ->
            /\ act.id \in Rows(db) /\ act.id \in Rows(db')
            /\ db'[act.id].encounter_count = db[act.id].encounter_count + 1
      [] act.action = "superseded" ->
            /\ act.id \in Rows(db')
            /\ db'[act.id].content = act.content
            /\ act.old \in Rows(db')
            /\ db'[act.old].superseded_by = act.id

\* C36: the log of a remember_facts call has one action for each extracted
\* fact, in the order of extraction, and the step that logs an action has
\* made the change the action tells of: `inserted` a new row of that
\* content, `reinforced` the encounter_count of the named row one higher,
\* `superseded` the superseded_by of the old row pointing at the new row;
\* a call that returns delivers that log, whatever other calls have done at
\* its awaits.
C36_ActionsAreCommitted ==
    [][\A p \in Procs :
          /\ LogsAction(p)
             => /\ Len(procs'[p].actions) = procs[p].idx
                /\ ActionCommitted(procs'[p].actions[procs[p].idx])
          /\ (procs[p].op = "remember" /\ procs[p].pc \notin FreePcs
                /\ procs'[p].pc = "done")
             => /\ Len(procs'[p].delivered) = Len(procs'[p].facts)
                /\ procs'[p].delivered = procs'[p].actions]_vars

\* the rows the actions logged so far wrote or reinforced, and the rows they
\* replaced
Written(rec) == {rec.actions[k].id : k \in DOMAIN rec.actions}
Replaced(rec) ==
    {rec.actions[k].old :
        k \in {j \in DOMAIN rec.actions : rec.actions[j].action = "superseded"}}
WorkingIds(rec) == {rec.ws[k].id : k \in DOMAIN rec.ws}

\* an entry of the in-memory array against its row of the table
EntryIsRow(e, d) ==
    /\ e.id \in Rows(d)
    /\ d[e.id].running_intensity = e.running_intensity
    /\ d[e.id].encounter_count = e.encounter_count
    /\ d[e.id].access_count = e.access_count
    /\ d[e.id].superseded_by = NULL
    /\ e.superseded_by = NULL

\* the in-memory array of a batch against the table after a fact
WorkingSetIsTable(rec, d) ==
    \A k \in DOMAIN rec.ws : EntryIsRow(rec.ws[k], d)

\* C37: in a remember_facts batch that no other call interleaves, after
\* each fact every entry of the in-memory working set equals its row of the
\* table (id, running_intensity, encounter_count, access_count, and
\* superseded_by NULL), every chunk the batch inserted or reinforced and has
\* not superseded since is in the working set, and every chunk the batch
\* superseded is not.
C37_WorkingSetFollowsWrites ==
    [][\A p \in Procs :
          LogsAction(p)
          => /\ WorkingSetIsTable(procs'[p], db')
             /\ (Written(procs'[p]) \ Replaced(procs'[p]))
                   \subseteq WorkingIds(procs'[p])
             /\ Replaced(procs'[p]) \cap WorkingIds(procs'[p]) = {}]_vars

\* C37 as stated: every chunk the batch inserted or reinforced is in the
\* working set, those it superseded afterwards too.
C37_Original ==
    [][\A p \in Procs :
          LogsAction(p)
          => /\ WorkingSetIsTable(procs'[p], db')
             /\ Written(procs'[p]) \subseteq WorkingIds(procs'[p])
             /\ Replaced(procs'[p]) \cap WorkingIds(procs'[p]) = {}]_vars

\* a finished batch that inserted a chunk for one fact and superseded that
\* chunk for a later fact
C37_Witness ==
    \E p \in Procs :
        /\ procs[p].op = "remember" /\ procs[p].pc = "done"
        /\ \E k, j \in DOMAIN procs[p].actions :
              /\ k < j
              /\ procs[p].actions[k].action = "inserted"
              /\ procs[p].actions[j].action = "superseded"
              /\ procs[p].actions[j].old = procs[p].actions[k].id
        /\ WorkingSetIsTable(procs[p], db)

\* a finished batch that reinforced a chunk it had loaded from the table
C37_WitnessReinforced ==
    \E p \in Procs :
        /\ procs[p].op = "remember" /\ procs[p].pc = "done"
        /\ \E k \in DOMAIN procs[p].actions :
              /\ procs[p].actions[k].action = "reinforced"
              /\ procs[p].actions[k].id \notin procs[p].made
              /\ procs[p].actions[k].id \in WorkingIds(procs[p])
        /\ WorkingSetIsTable(procs[p], db)

\* the active fact chunks of an agent and scope that a fact of this text
\* would count as a duplicate of
ActiveCopies(d, agent, scope, fact) ==
    {i \in Rows(d) :
        /\ d[i].agent_id = agent /\ d[i].scope = scope
        /\ d[i].kind = "fact" /\ d[i].superseded_by = NULL
        /\ AboveDuplicate(Sim(embed(fact), d[i]))}

\* slots p and q hold two remember_facts calls of one agent and scope that
\* overlapped, extracted the same single fact and have both returned
SameFactTwice(p, q) ==
    /\ p # q
    /\ procs[p].op = "remember" /\ procs[p].pc = "done"
    /\ procs[q].op = "remember" /\ procs[q].pc = "done"
    /\ procs[p].agent = procs[q].agent /\ procs[p].scope = procs[q].scope
    /\ Len(procs[p].facts) = 1
    /\ procs[q].facts = procs[p].facts

\* C38: when two overlapping remember_facts batches of one agent and scope
\* extract the same fact, the table ends with exactly one active chunk for
\* it, whatever the order of their steps: the later writer reinforces the
\* chunk of the earlier one.
C38_SameFactOneActiveChunk ==
    \A p, q \in Procs :
        SameFactTwice(p, q)
        => Cardinality(ActiveCopies(db, procs[p].agent, procs[p].scope,
                                    procs[p].facts[1].fact)) = 1

\* slot p's updateChunk call is suspended in embed() and its chunk has been
\* deleted since the call read it
TargetGone(p) ==
    /\ procs[p].op = "update" /\ procs[p].pc = "embed"
    /\ procs[p].best \notin Rows(db)

\* C39: when the chunk of an updateChunk call is deleted, by forget_memory
\* or deleteChunk, while the call is suspended in embed(), the call fails
\* with "Chunk not found" (with the error of embed() when embed() itself
\* rejects) and leaves the table as it is: the row is not created again and
\* no other row is changed.
C39_UpdateOfDeletedChunkFails ==
    [][\A p \in Procs :
          (TargetGone(p) /\ Steps(p))
          => /\ procs'[p].pc = "failed"
             /\ procs'[p].err \in {"Chunk not found", "Error"}
             /\ procs'[p].result = <<>>
             /\ db' = db]_vars

\* an updateChunk call that found its chunk (the record has the agent of
\* the row it read), lost it to deleteChunk during embed() and failed with
\* "Chunk not found", beside rows it left alone
C39_Witness ==
    \E p \in Procs :
        /\ procs[p].op = "update" /\ procs[p].pc = "failed"
        /\ procs[p].err = "Chunk not found"
        /\ procs[p].agent # ""
        /\ \A q \in Procs \ {p} : procs[q].op = "idle"
        /\ Cardinality(Rows(db)) = MaxSeed - 1

\* the same after a forget_memory call of the chunk's agent deleted it
C39_WitnessForget ==
    \E p \in Procs :
        /\ procs[p].op = "update" /\ procs[p].pc = "failed"
        /\ procs[p].err = "Chunk not found"
        /\ procs[p].agent # ""
        /\ \E q \in Procs :
              /\ procs[q].op = "forget" /\ procs[q].pc = "done"
              /\ procs[q].agent = procs[p].agent
              /\ procs[q].result # <<>>

\* slot p's recall_memories call returns in this step and none of its boost
\* writes raised a storage error
RecallReturnsClean(p) ==
    /\ RecallReturns(p)
    /\ \A k \in DOMAIN procs'[p].faults : procs'[p].faults[k] = NO_FAULT

\* C40: a recall_memories call that returns the chunks R without a storage
\* error adds 1 to access_count, sets last_accessed_at to the time of the
\* call and sets running_intensity to min(1, previous + 0.02) on every chunk
\* of R, changes nothing else of them and nothing of any other chunk, and
\* neither inserts nor deletes a row; with no result it writes nothing.
C40_RecallWritesOnlyBoosts ==
    [][\A p \in Procs :
          RecallReturnsClean(p)
          => LET R == Range(procs'[p].result)
             IN  /\ Rows(db') = Rows(db)
                 /\ R \subseteq Rows(db)
                 /\ \A i \in R :
                       db'[i] = [db[i] EXCEPT
                                   !.access_count = @ + 1,
                                   !.last_accessed_at = procs[p].now,
                                   !.running_intensity =
                                       RMin(<<1, 1>>, RAdd(@, <<2, 100>>))]
                 /\ \A i \in Rows(db) \ R : db'[i] = db[i]
                 /\ R = {} => db' = db]_vars

\* a recall that returned two chunks, one of them boosted before, beside a
\* chunk of the table it did not return
C40_Witness ==
    \E p \in Procs :
        /\ procs[p].op = "recall" /\ procs[p].pc = "done"
        /\ Len(procs[p].result) = 2
        /\ \A k \in DOMAIN procs[p].faults : procs[p].faults[k] = NO_FAULT
        /\ \A k \in 1 .. 2 : procs[p].result[k] \in Rows(db)
        /\ \E k \in 1 .. 2 : db[procs[p].result[k]].access_count >= 2
        /\ \E i \in Rows(db) : i \notin Range(procs[p].result)

\* a recall that found nothing on a table that holds chunks
C40_WitnessEmpty ==
    \E p \in Procs :
        /\ procs[p].op = "recall" /\ procs[p].pc = "done"
        /\ procs[p].result = <<>>
        /\ Rows(db) # {}

====
